---- MODULE Spec2Model ----
(***************************************************************************)
(* The shared middleware tier of the planner microservices: the fixed-     *)
(* window rate limiter and the per-route circuit breaker of                *)
(* services/shared/middleware.py, and the service registry and event bus   *)
(* of services/shared/service_discovery.py, all over one Redis store.      *)
(*                                                                         *)
(* The store is shared by every service process, so one store command      *)
(* (GET, SETEX, INCR, SET, DELETE, SADD, ...) is one atomic step and the    *)
(* commands of concurrent requests interleave.  Time is a clock in whole   *)
(* seconds; a key written with a TTL carries its absolute expiry time and  *)
(* is removed by the clock step that reaches it.                           *)
(***************************************************************************)
EXTENDS Integers, Sequences, FiniteSets, Bags, TLC

VARIABLES
    now,                  \* the clock, in seconds (time.time(), datetime.now())
    requests_per_minute,  \* RateLimitMiddleware.requests_per_minute
    rlStore,              \* the rate_limit:{client}:{minute} keys of the store
    rlReqs,               \* requests inside RateLimitMiddleware.dispatch (a bag)
    rlBegun,              \* history: requests begun per rate-limit key
    rlAdmitted,           \* history: requests permitted per rate-limit key
    failure_threshold,    \* CircuitBreakerMiddleware.failure_threshold
    recovery_timeout,     \* CircuitBreakerMiddleware.recovery_timeout
    cbStore,              \* the circuit_breaker:{path} keys of the store
    cbReqs,               \* requests inside CircuitBreakerMiddleware.dispatch (a bag)
    cbBegun,              \* history: requests that entered the circuit breaker
    cbStreak,             \* history: failed requests of a path since its last
                          \* success or the expiry of its record
    cbLast,               \* history: how the last handled request of a path ended
    cbSince,              \* history: failed requests of a path since its last
                          \* successful probe, if there was one
    cbOpenAt,             \* history: last_failure of the write that opened the
                          \* breaker of a path, until a later write or delete
    brkStore,             \* the circuit_breaker:{service_name} keys of the store
    brkCall,              \* the CircuitBreaker call under way or made last
    brkBegun,             \* history: CircuitBreaker calls begun
    brkStreak,            \* history: per service, the record_failure calls in a row
                          \* (n) and the time of the last of them (at)
    eventLog,             \* the event_log list of the store, head first
    busChannel,           \* the last message broadcast: its channel and event
    busPublished,         \* history: publish_event calls made
    busSubs,              \* the pubsub objects subscribe_to_events returned, by
                          \* number: their channels, and busPublished when made
    busInbox,             \* the messages the store delivered to each pubsub
    busCallbacks,         \* EventBus._subscribers: the pubsub whose callback is
                          \* kept for an event type
    busHistory,           \* history: the limit and the list of the last
                          \* get_event_history, until the next publish_event
    regKeys,              \* the service:{name}:{host}:{port} keys of the store
    regSets,              \* the services:{name} sets of the store, by name
    regOps,               \* ServiceRegistry calls under way (a bag)
    regBegun,             \* history: ServiceRegistry calls begun
    regLast,              \* history: the ServiceRegistry call that returned last
    regResult,            \* history: the last list discover_service returned
    regGone,              \* history: the instances deregistered and not
                          \* registered again since
    regLive,              \* history: the instances registered, with the time
                          \* their TTL runs out, until deregistered or expired
    regAnswer,            \* history: what the last get_service_endpoint or
                          \* call_service returned
    healthTasks,          \* the check_service_health tasks of the system_health
                          \* call under way, by service
    healthResult,         \* the SystemHealth the last system_health returned
    healthCalls,          \* history: system_health calls begun
    planStore,            \* the itinerary cache of the planner service: md5 keys
    planReq,              \* the generate_itinerary request under way
    planLast,             \* history: the response of the last request
    planGenerated,        \* history: calls of TravelPlanner.create_itineary
    planCalls,            \* history: generate_itinerary requests begun
    planFresh,            \* history: per city and interests, the itinerary last generated
    authStore,            \* the store of the auth service: session and blacklist keys
    authIssued,           \* history: the tokens login has returned
    authOut,              \* history: the tokens logout was called with
    authLast,             \* history: the last call and its response
    authCalls,            \* history: calls made
    notifStore,           \* the notification records, by notification id
    notifTasks,           \* the background task of each notification: its type and position
    notifHist,            \* history: the statuses stored for each notification, in order
    cmStore,              \* the store of the cache manager: key -> [val, exp], val a JSON text
    cmCall,               \* the get_or_set call in progress, or the last one that returned
    cmCalls,              \* get_or_set calls that have returned or raised
    cmFresh,              \* per key, the factory result last stored and the instant its TTL ends
    pipeConfig,           \* the config dict given to setup_common_middleware
    user_middleware,      \* app.user_middleware, the list add_middleware fills
    pipeSetup,            \* the steps of setup_common_middleware done so far
    pipeReq               \* the request in the pipeline: where it is, the
                          \* stages it entered and left, its response

rlVars == <<requests_per_minute, rlStore, rlReqs, rlBegun, rlAdmitted>>

cbVars == <<failure_threshold, recovery_timeout, cbStore, cbReqs, cbBegun, cbStreak,
            cbLast, cbSince, cbOpenAt>>

brkVars == <<brkStore, brkCall, brkBegun, brkStreak>>

busVars == <<eventLog, busChannel, busPublished, busSubs, busInbox, busCallbacks, busHistory>>

regVars == <<regKeys, regSets, regOps, regBegun, regLast, regResult, regGone, regLive,
            regAnswer>>

pipeVars == <<pipeConfig, user_middleware, pipeSetup, pipeReq>>

monVars == <<healthTasks, healthResult, healthCalls>>

authVars == <<authStore, authIssued, authOut, authLast, authCalls>>

notifVars == <<notifStore, notifTasks, notifHist>>

cacheVars == <<cmStore, cmCall, cmCalls, cmFresh>>

planVars == <<planStore, planReq, planLast, planGenerated, planCalls, planFresh>>

vars == <<now, rlVars, cbVars, brkVars, busVars, regVars, pipeVars, monVars, planVars, authVars, notifVars, cacheVars>>

\* What a step of one component leaves alone: the other components.
RLOthers == <<cbVars, brkVars, busVars, regVars, pipeVars, monVars, planVars, authVars, notifVars, cacheVars>>

CBOthers == <<rlVars, brkVars, busVars, regVars, pipeVars, monVars, planVars, authVars, notifVars, cacheVars>>

BrkOthers == <<now, rlVars, cbStore, cbReqs, cbBegun, cbStreak, cbLast, cbSince, cbOpenAt,
               busVars, regVars, pipeVars, monVars, planVars, authVars, notifVars, cacheVars>>

BusOthers == <<now, rlVars, cbVars, brkVars, regVars, pipeVars, monVars, planVars, authVars, notifVars, cacheVars>>

RegOthers == <<rlVars, cbVars, brkVars, busVars, pipeVars, monVars, planVars, authVars, notifVars, cacheVars>>

MonOthers == <<now, rlVars, cbVars, brkVars, busVars, regVars, pipeVars, planVars, authVars, notifVars, cacheVars>>

PlanOthers == <<rlVars, cbVars, brkVars, busVars, regVars, pipeVars, monVars, authVars, notifVars, cacheVars>>

AuthOthers == <<rlVars, cbVars, brkVars, busVars, regVars, pipeVars, monVars, planVars, notifVars, cacheVars>>

CacheOthers == <<rlVars, cbVars, brkVars, busVars, regVars, pipeVars, monVars, planVars, authVars, notifVars>>

NotifOthers == <<rlVars, cbVars, brkVars, busVars, regVars, pipeVars, monVars, planVars, authVars, cacheVars>>

PipeOthers == <<now, rlVars, cbVars, brkVars, busVars, regVars, monVars, planVars, authVars, notifVars, cacheVars>>

None == <<>>              \* Python None, a missing key
Some(v) == <<v>>          \* a value that was read
ValueOf(m) == m[1]
NoExpiry == -1            \* a key written without a TTL

(***************************************************************************)
(* Bounds of the model                                                     *)
(***************************************************************************)
MaxLimit == 2             \* requests_per_minute ranges over 0..MaxLimit
MaxInFlight == 3          \* requests inside one middleware at a time
MaxRequests == 4          \* requests that enter one middleware in a run
RLMaxTime == 89           \* the rate limiter's clock stops here
MaxThreshold == 2         \* failure_threshold ranges over 1..MaxThreshold
CBMaxInFlight == 2        \* requests inside the circuit breaker at a time
CBMaxRequests == 4        \* requests that enter the circuit breaker in a run
CBMaxTime == 4            \* the circuit breaker's clock stops here
BrkMaxCalls == 3          \* CircuitBreaker calls made
MaxNotifications == 2     \* notifications queued
NotifMaxTime == 30        \* the clock of the notification service stops here
MaxAuthCalls == 4         \* calls of the auth service made
AuthMaxTime == 2700       \* the clock of the auth service stops here
MaxPlanCalls == 4         \* generate_itinerary requests made
PlanMaxTime == 5400       \* the planner's clock stops here
MaxHealthCalls == 2       \* system_health calls made
MaxPublish == 1002
MaxDelivered == 3         \* publish_event calls made while pubsubs listen
MaxSubscribe == 2         \* subscribe_to_events calls made        \* publish_event calls in a run
RegMaxInFlight == 2       \* ServiceRegistry calls under way at a time
RegMaxOps == 4            \* ServiceRegistry calls in a run
RegMaxTime == 45          \* the registry's clock stops here

Clients == {"10.0.0.1", "10.0.0.2"}
RLStartTimes == {0, 29}   \* the clock when the first request arrives
RLClockSteps == {30}      \* the clock advances in these steps
Paths == {"/plan"}
RecoveryTimeouts == {1, 2}
EventTypes == {"itinerary.created", "user.registered"}
HistoryLimits == {0, 1, 2, 100}
PlanRequests == {[city |-> "Rome", interests |-> "art"], [city |-> "rome", interests |-> "ART"],
                 [city |-> "a:b", interests |-> "c"], [city |-> "a", interests |-> "b:c"]}
Itineraries == {"plan A", "plan B"}
PlanClockSteps == {1800}
Users == {"admin", "user"}
AuthClockSteps == {900}
NotificationTypes == {"email", "sms", "webhook"}
NotifClockSteps == {30}
ServiceNames == {"svc", "svc:eu"}
Hosts == {"h1", "eu:h1"}
Ports == {80}
BreakerNames == {"planner"}
RegClockSteps == {15}

(***************************************************************************)
(* The store: GET, SETEX, INCR and expiry on a map key -> [val, exp]       *)
(***************************************************************************)
StoreGet(s, k) == IF k \in DOMAIN s THEN Some(s[k].val) ELSE None

StoreSetex(s, k, ttl, v, t) ==
    [x \in DOMAIN s \cup {k} |-> IF x = k THEN [val |-> v, exp |-> t + ttl] ELSE s[x]]

StoreSet(s, k, v) ==
    [x \in DOMAIN s \cup {k} |-> IF x = k THEN [val |-> v, exp |-> NoExpiry] ELSE s[x]]

\* INCR keeps the TTL of a key that exists and creates a missing key as 1
\* with no TTL.
StoreIncr(s, k) ==
    [x \in DOMAIN s \cup {k} |->
        IF x # k THEN s[x]
        ELSE IF k \in DOMAIN s THEN [val |-> s[k].val + 1, exp |-> s[k].exp]
        ELSE [val |-> 1, exp |-> NoExpiry]]

StoreDelete(s, k) == [x \in DOMAIN s \ {k} |-> s[x]]

\* The keys of s still alive at time t.
StoreExpire(s, t) ==
    [x \in {y \in DOMAIN s : s[y].exp = NoExpiry \/ s[y].exp > t} |-> s[x]]

(***************************************************************************)
(* RateLimitMiddleware                                                     *)
(***************************************************************************)
RateWindow == 60

CurrentMinute(t) == t \div RateWindow

\* f"rate_limit:{client_ip}:{minute}": the minute is the digits after the
\* last colon, so the key determines the pair and is kept as the pair.
RateLimitKey(c, t) == <<c, CurrentMinute(t)>>

RLKeys == Clients \X (0 .. CurrentMinute(RLMaxTime))

RetryAfter(t) == RateWindow - (t % RateWindow)

Max(a, b) == IF a >= b THEN a ELSE b

\* X-RateLimit-Remaining of a permitted response, from the count read.
Remaining(limit, cur) == Max(0, limit - (IF cur = None THEN 0 ELSE ValueOf(cur)) - 1)

\* The rate-limit headers of the response that leaves dispatch for request q:
\* the 429 is returned at line 43 as built, the headers are put (as str) on
\* the response of call_next only, lines 57-60.
RLHeaders(q, limit) ==
    IF q.pc = "rejected" THEN None
    ELSE Some([limit |-> ToString(limit), remaining |-> ToString(Remaining(limit, q.cur))])

RLPut(q) == SetToBag({q})

RECURSIVE SumOver(_, _)
SumOver(f, S) ==
    IF S = {} THEN 0
    ELSE LET x == CHOOSE y \in S : TRUE IN f[x] + SumOver(f, S \ {x})

\* The number of elements of bag B that lie in the set S.
RECURSIVE CopiesOf(_, _)
CopiesOf(B, S) ==
    IF S = {} THEN 0
    ELSE LET x == CHOOSE y \in S : TRUE IN CopiesIn(x, B) + CopiesOf(B, S \ {x})

\* The branch dispatch takes on the count it read (lines 38, 41, 50).
RLOverLimit(cur, limit) == cur # None /\ ValueOf(cur) >= limit

\* dispatch, lines 29-49: the key of the current window, GET key, and the 429
\* when the count read has reached the limit.  The clock is read with the GET:
\* no store command lies between them.
RLBegin(c) ==
    /\ BagCardinality(rlReqs) < MaxInFlight
    /\ SumOver(rlBegun, DOMAIN rlBegun) < MaxRequests
    /\ LET key == RateLimitKey(c, now)
           cur == StoreGet(rlStore, key)
       IN  rlReqs' = rlReqs (+) RLPut(
               IF RLOverLimit(cur, requests_per_minute)
               THEN [pc |-> "rejected", key |-> key, cur |-> cur,
                     retry_after |-> RetryAfter(now)]
               ELSE [pc |-> "write", key |-> key, cur |-> cur, retry_after |-> 0])
    /\ rlBegun' = [rlBegun EXCEPT ![RateLimitKey(c, now)] = @ + 1]
    /\ rlAdmitted' =
           IF RLOverLimit(StoreGet(rlStore, RateLimitKey(c, now)), requests_per_minute)
           THEN rlAdmitted
           ELSE [rlAdmitted EXCEPT ![RateLimitKey(c, now)] = @ + 1]
    /\ UNCHANGED <<now, requests_per_minute, rlStore, RLOthers>>

\* dispatch, lines 38-40: no counter was read, SETEX key 60 1.
RLFirst(q) ==
    /\ q.pc = "write"
    /\ q.cur = None
    /\ rlStore' = StoreSetex(rlStore, q.key, RateWindow, 1, now)
    /\ rlReqs' = (rlReqs (-) RLPut(q)) (+) RLPut([q EXCEPT !.pc = "call"])
    /\ UNCHANGED <<now, requests_per_minute, rlBegun, rlAdmitted, RLOthers>>

\* dispatch, lines 50-52: INCR key.
RLIncr(q) ==
    /\ q.pc = "write"
    /\ q.cur # None
    /\ rlStore' = StoreIncr(rlStore, q.key)
    /\ rlReqs' = (rlReqs (-) RLPut(q)) (+) RLPut([q EXCEPT !.pc = "call"])
    /\ UNCHANGED <<now, requests_per_minute, rlBegun, rlAdmitted, RLOthers>>

\* dispatch, lines 54-62 (the handler ran) or line 43 (the 429): the response
\* leaves the middleware.
RLReturn(q) ==
    /\ q.pc \in {"call", "rejected"}
    /\ rlReqs' = rlReqs (-) RLPut(q)
    /\ UNCHANGED <<now, requests_per_minute, rlStore, rlBegun, rlAdmitted, RLOthers>>

\* The clock advances; the store drops the keys whose TTL has run out.
RLTick(d) ==
    /\ now + d <= RLMaxTime
    /\ now' = now + d
    /\ rlStore' = StoreExpire(rlStore, now + d)
    /\ UNCHANGED <<requests_per_minute, rlReqs, rlBegun, rlAdmitted, RLOthers>>

RLInit ==
    /\ now \in RLStartTimes
    /\ requests_per_minute \in 0 .. MaxLimit
    /\ rlStore = <<>>
    /\ rlReqs = EmptyBag
    /\ rlBegun = [k \in RLKeys |-> 0]
    /\ rlAdmitted = [k \in RLKeys |-> 0]

\* The rate limiter with no request under way and nothing stored.
RLIdle ==
    /\ requests_per_minute = 0
    /\ rlStore = <<>>
    /\ rlReqs = EmptyBag
    /\ rlBegun = [k \in RLKeys |-> 0]
    /\ rlAdmitted = [k \in RLKeys |-> 0]

RLStep ==
    \/ \E q \in BagToSet(rlReqs) : RLFirst(q)
    \/ \E q \in BagToSet(rlReqs) : RLIncr(q)
    \/ \E q \in BagToSet(rlReqs) : RLReturn(q)
    \/ \E d \in RLClockSteps : RLTick(d)

\* Concurrent clients: a request may begin while others are in the middleware.
RLNext ==
    \/ \E c \in Clients : RLBegin(c)
    \/ RLStep

\* One client sends its requests one after another: it begins a request only
\* when its previous one has returned.
RLBeginSeq(c) ==
    /\ \A q \in BagToSet(rlReqs) : q.key[1] # c
    /\ RLBegin(c)

RLNextSeq ==
    \/ \E c \in Clients : RLBeginSeq(c)
    \/ RLStep

(***************************************************************************)
(* CircuitBreakerMiddleware                                                *)
(*                                                                         *)
(* A breaker record is the JSON object {failures, state, last_failure};    *)
(* json.dumps/json.loads and isoformat/fromisoformat give back the values  *)
(* written, so the record is kept as a record and last_failure as a time.  *)
(***************************************************************************)
CBPut(q) == SetToBag({q})

\* A stored text that json.loads rejects; every other stored value is the
\* record json.loads gives back.
Undecodable == [raw |-> "{"]

JsonDecodable(v) == "raw" \notin DOMAIN v

\* dict.update: the fields of upd put into v.
DictUpdate(v, upd) ==
    [f \in DOMAIN v \cup DOMAIN upd |-> IF f \in DOMAIN upd THEN upd[f] ELSE v[f]]

\* dispatch, lines 115-119: json.loads and the subscripts ["state"],
\* ["last_failure"] are outside every try, so an undecodable record or a
\* missing field raises out of dispatch.
CBDispatchRaises(data) ==
    /\ data # None
    /\ \/ ~JsonDecodable(ValueOf(data))
       \/ "state" \notin DOMAIN ValueOf(data)
       \/ ValueOf(data).state = "open" /\ "last_failure" \notin DOMAIN ValueOf(data)

\* _record_failure, lines 152-153: json.loads and ["failures"] raise alike;
\* the except clause of dispatch (line 144) calls _record_failure again,
\* which raises again.
CBRecordFailureRaises(data) ==
    /\ data # None
    /\ \/ ~JsonDecodable(ValueOf(data))
       \/ "failures" \notin DOMAIN ValueOf(data)

\* A faulty variant, to test the sensitivity of C3: the open check made with
\* >= instead of >, so a request arriving exactly at last_failure +
\* recovery_timeout is still rejected.
CBBeforeCallLate(data, t, timeout) ==
    IF data # None /\ ValueOf(data).state = "open"
    THEN IF ValueOf(data).last_failure + timeout >= t THEN "rejected" ELSE "half_open"
    ELSE "call"

\* dispatch, lines 114-127, on the record read: "reject" (503), "half_open"
\* (SET the record half-open, then proceed) or "call" (proceed).
CBBeforeCall(data, t, timeout) ==
    IF CBDispatchRaises(data) THEN "raised"
    ELSE IF data # None /\ ValueOf(data).state = "open"
    THEN IF ValueOf(data).last_failure + timeout > t THEN "rejected" ELSE "half_open"
    ELSE "call"

\* A faulty variant, to test the sensitivity of C5: last_failure is kept from
\* the record read instead of being set to the time of the failure.
CBRecordFailureInfoStale(data, t, threshold) ==
    IF data # None
    THEN [failures |-> ValueOf(data).failures + 1,
          state |-> IF ValueOf(data).failures + 1 >= threshold
                    THEN "open" ELSE ValueOf(data).state,
          last_failure |-> ValueOf(data).last_failure]
    ELSE [failures |-> 1, state |-> "closed", last_failure |-> t]

\* _record_failure, lines 151-163: the record to write, from the record read.
CBRecordFailureInfo(data, t, threshold) ==
    IF data # None
    THEN LET counted == DictUpdate(ValueOf(data), [failures |-> ValueOf(data).failures + 1,
                                                   last_failure |-> t])
         IN  IF counted.failures >= threshold
             THEN DictUpdate(counted, [state |-> "open"]) ELSE counted
    ELSE [failures |-> 1, state |-> "closed", last_failure |-> t]

\* A faulty variant, to test the sensitivity of C4: only a record read in
\* state closed is deleted, so a successful probe leaves the record.
CBSuccessDeletesClosed(data) == data # None /\ ValueOf(data).state = "closed"

\* dispatch, lines 133-135: whether a response below 500 deletes the record.
CBSuccessDeletes(data) == data # None

\* The request went through an open or half-open breaker: a recovery probe.
CBIsProbe(q) == q.data # None /\ ValueOf(q.data).state \in {"open", "half-open"}

CBExpired(s, t) == {p \in DOMAIN s : p \notin DOMAIN StoreExpire(s, t)}

\* dispatch, lines 110-123: GET the record of the path and decide.
CBBegin(p) ==
    /\ BagCardinality(cbReqs) < CBMaxInFlight
    /\ cbBegun < CBMaxRequests
    /\ cbBegun' = cbBegun + 1
    /\ cbReqs' = cbReqs (+) CBPut(
           [pc |-> CBBeforeCall(StoreGet(cbStore, p), now, recovery_timeout),
            path |-> p, data |-> StoreGet(cbStore, p), info |-> None])
    /\ UNCHANGED <<now, failure_threshold, recovery_timeout, cbStore, cbStreak, cbLast, cbSince,
                   cbOpenAt, CBOthers>>

\* dispatch, lines 125-127: SET the record with state half-open (no TTL).
CBSetHalfOpen(q) ==
    /\ q.pc = "half_open"
    /\ cbStore' = StoreSet(cbStore, q.path, [ValueOf(q.data) EXCEPT !.state = "half-open"])
    /\ cbReqs' = (cbReqs (-) CBPut(q)) (+) CBPut([q EXCEPT !.pc = "call"])
    /\ cbOpenAt' = [cbOpenAt EXCEPT ![q.path] = None]
    /\ UNCHANGED <<now, failure_threshold, recovery_timeout, cbBegun, cbStreak, cbLast, cbSince,
                   CBOthers>>

\* dispatch, lines 130-135 and 140: the handler answered below 500; DELETE the
\* record when one was read on the way in.
CBSuccess(q) ==
    /\ q.pc = "call"
    /\ cbStore' = IF CBSuccessDeletes(q.data) THEN StoreDelete(cbStore, q.path) ELSE cbStore
    /\ cbReqs' = cbReqs (-) CBPut(q)
    /\ cbStreak' = [cbStreak EXCEPT ![q.path] = 0]
    /\ cbLast' = [cbLast EXCEPT ![q.path] = IF CBIsProbe(q) THEN "probe_ok" ELSE "ok"]
    /\ cbSince' = IF CBIsProbe(q) THEN [cbSince EXCEPT ![q.path] = Some(0)] ELSE cbSince
    /\ cbOpenAt' = IF CBSuccessDeletes(q.data)
                   THEN [cbOpenAt EXCEPT ![q.path] = None] ELSE cbOpenAt
    /\ UNCHANGED <<now, failure_threshold, recovery_timeout, cbBegun, CBOthers>>

\* dispatch, lines 136-138 and 142-144, _record_failure, lines 149-163: the
\* handler answered 500 or above, or raised; GET the record and build the new one.
CBFailure(q) ==
    /\ q.pc = "call"
    /\ cbReqs' = (cbReqs (-) CBPut(q)) (+) CBPut(
           IF CBRecordFailureRaises(StoreGet(cbStore, q.path))
           THEN [q EXCEPT !.pc = "raised"]
           ELSE [q EXCEPT !.pc = "record",
                          !.info = Some(CBRecordFailureInfo(StoreGet(cbStore, q.path), now,
                                                            failure_threshold))])
    /\ UNCHANGED <<now, failure_threshold, recovery_timeout, cbStore, cbBegun, cbStreak,
                   cbLast, cbSince, cbOpenAt, CBOthers>>

\* _record_failure, line 165: SETEX the record for 2 * recovery_timeout; the
\* response (or the exception) then leaves the middleware.
CBRecordSet(q) ==
    /\ q.pc = "record"
    /\ cbStore' = StoreSetex(cbStore, q.path, recovery_timeout * 2, ValueOf(q.info), now)
    /\ cbReqs' = cbReqs (-) CBPut(q)
    /\ cbStreak' = [cbStreak EXCEPT ![q.path] = @ + 1]
    /\ cbLast' = [cbLast EXCEPT ![q.path] = IF CBIsProbe(q) THEN "probe_failed" ELSE "failed"]
    /\ cbSince' = IF cbSince[q.path] = None THEN cbSince
                  ELSE [cbSince EXCEPT ![q.path] = Some(ValueOf(@) + 1)]
    /\ cbOpenAt' = [cbOpenAt EXCEPT ![q.path] =
                        IF ValueOf(q.info).state = "open"
                        THEN Some(ValueOf(q.info).last_failure) ELSE None]
    /\ UNCHANGED <<now, failure_threshold, recovery_timeout, cbBegun, CBOthers>>

\* dispatch, lines 120-123: the 503 leaves the middleware.
CBReturn(q) ==
    /\ q.pc = "rejected"
    /\ cbReqs' = cbReqs (-) CBPut(q)
    /\ UNCHANGED <<now, failure_threshold, recovery_timeout, cbStore, cbBegun, cbStreak,
                   cbLast, cbSince, cbOpenAt, CBOthers>>

\* dispatch, line 115 or 117, or _record_failure, line 152 or 153: the
\* exception leaves the middleware.
CBRaise(q) ==
    /\ q.pc = "raised"
    /\ cbReqs' = cbReqs (-) CBPut(q)
    /\ cbLast' = [cbLast EXCEPT ![q.path] = "raised"]
    /\ UNCHANGED <<now, failure_threshold, recovery_timeout, cbStore, cbBegun, cbStreak,
                   cbSince, cbOpenAt, CBOthers>>

\* The clock advances one second; the store drops the records whose TTL has
\* run out.
CBTick ==
    /\ now < CBMaxTime
    /\ now' = now + 1
    /\ cbStore' = StoreExpire(cbStore, now + 1)
    /\ cbStreak' = [p \in Paths |-> IF p \in CBExpired(cbStore, now + 1) THEN 0
                                    ELSE cbStreak[p]]
    /\ UNCHANGED <<failure_threshold, recovery_timeout, cbReqs, cbBegun, cbLast, cbSince, cbOpenAt,
                   CBOthers>>

CBInit ==
    /\ now = 0
    /\ failure_threshold \in 1 .. MaxThreshold
    /\ recovery_timeout \in RecoveryTimeouts
    /\ cbStore = <<>>
    /\ cbReqs = EmptyBag
    /\ cbBegun = 0
    /\ cbStreak = [p \in Paths |-> 0]
    /\ cbLast = [p \in Paths |-> "none"]
    /\ cbSince = [p \in Paths |-> None]
    /\ cbOpenAt = [p \in Paths |-> None]

\* The circuit breaker with no request under way and nothing stored.
CBIdle ==
    /\ failure_threshold = 1
    /\ recovery_timeout = 1
    /\ cbStore = <<>>
    /\ cbReqs = EmptyBag
    /\ cbBegun = 0
    /\ cbStreak = [p \in Paths |-> 0]
    /\ cbLast = [p \in Paths |-> "none"]
    /\ cbSince = [p \in Paths |-> None]
    /\ cbOpenAt = [p \in Paths |-> None]

CBStep ==
    \/ \E q \in BagToSet(cbReqs) : CBSetHalfOpen(q)
    \/ \E q \in BagToSet(cbReqs) : CBSuccess(q)
    \/ \E q \in BagToSet(cbReqs) : CBFailure(q)
    \/ \E q \in BagToSet(cbReqs) : CBRecordSet(q)
    \/ \E q \in BagToSet(cbReqs) : CBReturn(q)
    \/ CBTick

\* Concurrent requests: one may begin while others are in the middleware.
CBNext ==
    \/ \E p \in Paths : CBBegin(p)
    \/ CBStep

\* No request of path p is in the middleware.
CBQuiet(p) == \A q \in BagToSet(cbReqs) : q.path # p

\* The requests of a path come one after another.
CBBeginSeq(p) ==
    /\ CBQuiet(p)
    /\ CBBegin(p)

CBNextSeq ==
    \/ \E p \in Paths : CBBeginSeq(p)
    \/ CBStep

(***************************************************************************)
(* CircuitBreaker (service_discovery.py)                                   *)
(*                                                                         *)
(* The breaker of service calls keeps {failures, state, opened_at} under   *)
(* circuit_breaker:{service_name}; the key is kept as the service name.    *)
(* Its threshold and timeout are those of the middleware (one pair of      *)
(* settings configures both).  A key whose TTL has run out is dropped by   *)
(* the store when it is read.                                              *)
(***************************************************************************)
BrkGet(name) == StoreGet(StoreExpire(brkStore, now), name)

\* A faulty variant, to test the sensitivity of C32: any record read is open.
BrkIsOpenAnyRecord(data) == data # None

\* is_open, lines 201-210: an undecodable record and a record with no state
\* (breaker_info.get) are not open.
BrkIsOpen(data) ==
    /\ data # None
    /\ JsonDecodable(ValueOf(data))
    /\ "state" \in DOMAIN ValueOf(data)
    /\ ValueOf(data).state = "open"

\* record_failure, lines 222-226: only json.JSONDecodeError is caught, the
\* KeyError of breaker_info["failures"] is not.
BrkRecordFailureRaises(data) ==
    /\ data # None
    /\ JsonDecodable(ValueOf(data))
    /\ "failures" \notin DOMAIN ValueOf(data)

\* record_failure, lines 221-232: the record to write, from the record read.
BrkRecordFailureInfo(data, t, threshold) ==
    LET counted == IF data # None /\ JsonDecodable(ValueOf(data))
                   THEN DictUpdate(ValueOf(data), [failures |-> ValueOf(data).failures + 1])
                   ELSE [failures |-> 1, state |-> "closed"]
    IN  IF counted.failures >= threshold
        THEN DictUpdate(counted, [state |-> "open", opened_at |-> t])
        ELSE counted

\* The failures in a row of the service go on: there is one, and less than
\* recovery_timeout has passed since the last of them.
BrkStreakLive(name) == brkStreak[name].n > 0 /\ now - brkStreak[name].at < recovery_timeout

BrkCanBegin == brkCall.pc = "idle" /\ brkBegun < BrkMaxCalls

\* is_open(service_name): GET and answer.
is_open(name) ==
    /\ BrkCanBegin
    /\ brkBegun' = brkBegun + 1
    /\ brkCall' = [pc |-> "idle", op |-> "is_open", name |-> name, data |-> BrkGet(name),
                   info |-> None,
                   result |-> IF BrkIsOpen(BrkGet(name)) THEN "True" ELSE "False"]
    /\ UNCHANGED <<failure_threshold, recovery_timeout, brkStore, brkStreak, BrkOthers>>

\* record_success(service_name), line 214: DELETE.
record_success(name) ==
    /\ BrkCanBegin
    /\ brkBegun' = brkBegun + 1
    /\ brkStore' = StoreDelete(brkStore, name)
    /\ brkCall' = [pc |-> "idle", op |-> "record_success", name |-> name, data |-> None,
                   info |-> None, result |-> "None"]
    /\ brkStreak' = [brkStreak EXCEPT ![name] = [n |-> 0, at |-> 0]]
    /\ UNCHANGED <<failure_threshold, recovery_timeout, BrkOthers>>

\* record_failure(service_name), lines 218-232: GET, then the record to write
\* or the exception.
RecordFailureGet(name) ==
    /\ BrkCanBegin
    /\ brkBegun' = brkBegun + 1
    /\ brkCall' =
           IF BrkRecordFailureRaises(BrkGet(name))
           THEN [pc |-> "idle", op |-> "record_failure", name |-> name,
                 data |-> BrkGet(name), info |-> None, result |-> "raised"]
           ELSE [pc |-> "setex", op |-> "record_failure", name |-> name,
                 data |-> BrkGet(name),
                 info |-> Some(BrkRecordFailureInfo(BrkGet(name), now, failure_threshold)),
                 result |-> "none"]
    /\ UNCHANGED <<failure_threshold, recovery_timeout, brkStore, brkStreak, BrkOthers>>

\* record_failure, lines 234-235: SETEX for recovery_timeout seconds.
RecordFailureSetex ==
    /\ brkCall.pc = "setex"
    /\ brkStore' = StoreSetex(brkStore, brkCall.name, recovery_timeout,
                              ValueOf(brkCall.info), now)
    /\ brkCall' = [brkCall EXCEPT !.pc = "idle", !.result = "None"]
    /\ brkStreak' = [brkStreak EXCEPT ![brkCall.name] =
                         [n |-> IF BrkStreakLive(brkCall.name) THEN @.n + 1 ELSE 1, at |-> now]]
    /\ UNCHANGED <<failure_threshold, recovery_timeout, brkBegun, BrkOthers>>

BrkNoCall == [pc |-> "idle", op |-> "none", name |-> "", data |-> None, info |-> None,
              result |-> "none"]

BrkInit ==
    /\ brkStore = <<>>
    /\ brkCall = BrkNoCall
    /\ brkBegun = 0
    /\ brkStreak = [name \in BreakerNames |-> [n |-> 0, at |-> 0]]

BrkNext ==
    \/ \E name \in BreakerNames : is_open(name)
    \/ \E name \in BreakerNames : record_success(name)
    \/ \E name \in BreakerNames : RecordFailureGet(name)
    \/ RecordFailureSetex

\* The clock advances one second between two calls of the breaker (a call
\* sends its commands at one instant); the store drops an expired key when
\* the key is read.
BrkTick ==
    /\ brkCall.pc = "idle"
    /\ now < CBMaxTime
    /\ now' = now + 1
    /\ UNCHANGED <<rlVars, cbVars, brkVars, busVars, regVars, pipeVars, monVars, planVars, authVars, notifVars, cacheVars>>

\* The calls of one caller of the breaker as time passes.
BrkSeqNext ==
    \/ BrkNext
    \/ BrkTick

(***************************************************************************)
(* Stored breaker records that are damaged                                 *)
(***************************************************************************)
\* What a breaker key may hold when it was not written by the code above: a
\* text that is no JSON, a record with no failures, a record with no state.
DamagedRecords == {Undecodable,
                   [state |-> "closed", last_failure |-> 0],
                   [failures |-> 1, last_failure |-> 0]}

DamagedStore(keys, v) == [k \in keys |-> [val |-> v, exp |-> NoExpiry]]

\* Both breakers start on a store whose breaker keys are absent or damaged.
DamagedInit ==
    /\ now = 0
    /\ failure_threshold \in 1 .. MaxThreshold
    /\ recovery_timeout \in RecoveryTimeouts
    /\ cbStore \in {<<>>} \cup {DamagedStore(Paths, v) : v \in DamagedRecords}
    /\ cbReqs = EmptyBag
    /\ cbBegun = 0
    /\ cbStreak = [p \in Paths |-> 0]
    /\ cbLast = [p \in Paths |-> "none"]
    /\ cbSince = [p \in Paths |-> None]
    /\ cbOpenAt = [p \in Paths |-> None]
    /\ brkStore \in {<<>>} \cup {DamagedStore(BreakerNames, v) : v \in DamagedRecords}
    /\ brkCall = BrkNoCall
    /\ brkBegun = 0
    /\ brkStreak = [name \in BreakerNames |-> [n |-> 0, at |-> 0]]

DamagedNext ==
    \/ CBNextSeq
    \/ \E q \in BagToSet(cbReqs) : CBRaise(q)
    \/ BrkNext

(***************************************************************************)
(* The store is unreachable                                                *)
(*                                                                         *)
(* Every command of the redis client raises (redis.ConnectionError).  Both *)
(* middleware issue their GET first, outside every try, so the exception   *)
(* leaves dispatch before the handler is called and nothing is written.    *)
(***************************************************************************)
\* RateLimitMiddleware.dispatch, line 36: the GET raises.
RLBeginDown(c) ==
    /\ BagCardinality(rlReqs) < MaxInFlight
    /\ SumOver(rlBegun, DOMAIN rlBegun) < MaxRequests
    /\ rlReqs' = rlReqs (+) RLPut([pc |-> "raised", key |-> RateLimitKey(c, now),
                                   cur |-> None, retry_after |-> 0])
    /\ rlBegun' = [rlBegun EXCEPT ![RateLimitKey(c, now)] = @ + 1]
    /\ UNCHANGED <<now, requests_per_minute, rlStore, rlAdmitted, RLOthers>>

\* The exception leaves the rate limiter.
RLRaise(q) ==
    /\ q.pc = "raised"
    /\ rlReqs' = rlReqs (-) RLPut(q)
    /\ UNCHANGED <<now, requests_per_minute, rlStore, rlBegun, rlAdmitted, RLOthers>>

\* CircuitBreakerMiddleware.dispatch, line 113: the GET raises.
CBBeginDown(p) ==
    /\ BagCardinality(cbReqs) < CBMaxInFlight
    /\ cbBegun < CBMaxRequests
    /\ cbBegun' = cbBegun + 1
    /\ cbReqs' = cbReqs (+) CBPut([pc |-> "raised", path |-> p, data |-> None, info |-> None])
    /\ UNCHANGED <<now, failure_threshold, recovery_timeout, cbStore, cbStreak, cbLast, cbSince,
                   cbOpenAt, CBOthers>>

OutageNext ==
    \/ \E c \in Clients : RLBeginDown(c)
    \/ \E q \in BagToSet(rlReqs) : RLRaise(q)
    \/ \E d \in RLClockSteps : RLTick(d)
    \/ \E p \in Paths : CBBeginDown(p)
    \/ \E q \in BagToSet(cbReqs) : CBRaise(q)

(***************************************************************************)
(* EventBus                                                                *)
(*                                                                         *)
(* An event is kept as its data payload; the caller of the k-th            *)
(* publish_event passes k, so the entries of the log can be told apart.    *)
(***************************************************************************)
LogTrimStop == 1000

Min(a, b) == IF a <= b THEN a ELSE b

\* LPUSH: the value becomes the head of the list.
Lpush(s, v) == <<v>> \o s

\* LTRIM start stop: keeps the elements at the 0-based indexes start..stop,
\* both ends included.
Ltrim(s, start, stop) == SubSeq(s, start + 1, Min(stop + 1, Len(s)))

EventChannel(event_type) == "events:" \o event_type

\* LRANGE start stop: the elements at the 0-based indexes start..stop, both
\* ends included; a negative index counts from the tail (-1 is the last).
Lrange(s, start, stop) ==
    LET lo == IF start < 0 THEN Max(Len(s) + start, 0) ELSE start
        hi == IF stop < 0 THEN Len(s) + stop ELSE Min(stop, Len(s) - 1)
    IN  IF lo > hi THEN <<>> ELSE SubSeq(s, lo + 1, hi + 1)

\* A faulty variant, to test the sensitivity of C23: the message goes to
\* every pubsub, whatever its channels.
DeliverToAll(inbox, subs, msg) ==
    [n \in DOMAIN inbox |-> Append(inbox[n], msg)]

\* PUBLISH: the store puts the message once into every pubsub subscribed to
\* its channel.
Deliver(inbox, subs, msg) ==
    [n \in DOMAIN inbox |-> IF msg.channel \in subs[n].channels
                            THEN Append(inbox[n], msg) ELSE inbox[n]]

\* publish_event, lines 148-161: PUBLISH on the channel of the type, LPUSH to
\* event_log, LTRIM event_log 0 1000.
publish_event(event_type) ==
    /\ busPublished < MaxPublish
    /\ busPublished' = busPublished + 1
    /\ busChannel' = Some([channel |-> EventChannel(event_type), event |-> busPublished + 1])
    /\ busInbox' = Deliver(busInbox, busSubs,
                            [channel |-> EventChannel(event_type), event |-> busPublished + 1])
    /\ eventLog' = Ltrim(Lpush(eventLog, busPublished + 1), 0, LogTrimStop)
    /\ busHistory' = None
    /\ UNCHANGED <<busSubs, busCallbacks, BusOthers>>

\* subscribe_to_events, lines 167-175: a new pubsub subscribes to the channels
\* of the event types; the callback is kept per event type.
subscribe_to_events(event_types) ==
    /\ Len(busSubs) < MaxSubscribe
    /\ busSubs' = Append(busSubs, [channels |-> {EventChannel(t) : t \in event_types},
                                   since |-> busPublished])
    /\ busInbox' = Append(busInbox, <<>>)
    /\ busCallbacks' = [t \in EventTypes |-> IF t \in event_types THEN Some(Len(busSubs) + 1)
                                             ELSE busCallbacks[t]]
    /\ UNCHANGED <<eventLog, busChannel, busPublished, busHistory, BusOthers>>

\* get_event_history, lines 179-188: LRANGE event_log 0 limit-1; every entry
\* was written by publish_event and decodes.
get_event_history(limit) ==
    /\ busHistory' = Some([limit |-> limit, events |-> Lrange(eventLog, 0, limit - 1)])
    /\ UNCHANGED <<eventLog, busChannel, busPublished, busSubs, busInbox, busCallbacks, BusOthers>>

\* The event bus before the first publish_event.
BusInit ==
    /\ eventLog = <<>>
    /\ busChannel = None
    /\ busPublished = 0
    /\ busSubs = <<>>
    /\ busInbox = <<>>
    /\ busCallbacks = [t \in EventTypes |-> None]
    /\ busHistory = None

BusNext == \E event_type \in EventTypes : publish_event(event_type)

\* A few events, published while pubsubs subscribe and the history is read.
BusLiveNext ==
    \/ busPublished < MaxDelivered /\ \E event_type \in EventTypes : publish_event(event_type)
    \/ \E event_types \in SUBSET EventTypes \ {{}} : subscribe_to_events(event_types)
    \/ \E limit \in HistoryLimits : get_event_history(limit)

(***************************************************************************)
(* ServiceRegistry                                                         *)
(*                                                                         *)
(* A stored service record is the JSON object written by register_service; *)
(* json.dumps/json.loads give back the values written.  Of its fields the  *)
(* record keeps service_name, host and port; health_check_url and metadata *)
(* take their defaults.  A call under way is a record with the fields      *)
(* op, pc, name, host, port, key, began, again, after, todo, found, url.   *)
(***************************************************************************)
RegistryTtl == 30

\* f"service:{service_name}:{host}:{port}"
ServiceKey(name, host, port) ==
    "service:" \o name \o ":" \o host \o ":" \o ToString(port)

ServiceInfo(name, host, port) == [service_name |-> name, host |-> host, port |-> port]

RegPut(q) == SetToBag({q})

\* The instances registered and the times their TTLs run out: instance i
\* registered until t, and the instances of D dropped.
LiveSet(live, i, t) == [x \in DOMAIN live \cup {i} |-> IF x = i THEN t ELSE live[x]]

LiveDrop(live, D) == [x \in DOMAIN live \ D |-> live[x]]

RegCanBegin ==
    /\ BagCardinality(regOps) < RegMaxInFlight
    /\ regBegun < RegMaxOps

\* register_service, lines 25-35: SETEX the record under its key for ttl.
RegisterSetex(name, host, port) ==
    /\ RegCanBegin
    /\ regBegun' = regBegun + 1
    /\ regKeys' = StoreSetex(regKeys, ServiceKey(name, host, port), RegistryTtl,
                             ServiceInfo(name, host, port), now)
    /\ regOps' = regOps (+) RegPut(
           [op |-> "register", pc |-> "sadd", name |-> name, host |-> host, port |-> port,
            key |-> ServiceKey(name, host, port), began |-> now,
            again |-> ServiceKey(name, host, port) \in DOMAIN regKeys
                      /\ ServiceKey(name, host, port) \in regSets[name],
            after |-> None, todo |-> {}, found |-> EmptyBag, url |-> ""])
    /\ regGone' = regGone \ {<<name, host, port>>}
    /\ regLive' = LiveSet(regLive, <<name, host, port>>, now + RegistryTtl)
    /\ UNCHANGED <<now, regSets, regLast, regResult, regAnswer,
                   RegOthers>>

\* register_service, line 38: SADD the key to the set of the name; the call
\* returns.
RegisterSadd(q) ==
    /\ q.op = "register" /\ q.pc = "sadd"
    /\ regSets' = [regSets EXCEPT ![q.name] = @ \cup {q.key}]
    /\ regOps' = regOps (-) RegPut(q)
    /\ regLast' = Some(q)
    /\ UNCHANGED <<now, regKeys, regBegun, regResult, regGone, regLive, regAnswer,
                   RegOthers>>

\* The calls that run discover_service: discover_service itself,
\* get_service_endpoint (line 62) and call_service (line 100, through
\* get_service_endpoint).
RegDiscovering == {"discover", "endpoint", "call"}

\* discover_service, lines 44-45: SMEMBERS the set of the name.
DiscoverSmembers(name) ==
    /\ RegCanBegin
    /\ regBegun' = regBegun + 1
    /\ regOps' = regOps (+) RegPut(
           [op |-> "discover", pc |-> "scan", name |-> name, host |-> "", port |-> 0,
            key |-> "", began |-> now, again |-> FALSE,
            after |-> regLast, todo |-> regSets[name], found |-> EmptyBag, url |-> ""])
    /\ UNCHANGED <<now, regKeys, regSets, regLast, regResult, regGone, regLive, regAnswer,
                   RegOthers>>

\* discover_service, lines 47-54: GET the next key; a record found joins the
\* result, a key not found is to be removed from the set.
DiscoverGet(q, k) ==
    /\ q.op \in RegDiscovering /\ q.pc = "scan"
    /\ k \in q.todo
    /\ regOps' = (regOps (-) RegPut(q)) (+) RegPut(
           IF StoreGet(regKeys, k) # None
           THEN [q EXCEPT !.todo = @ \ {k},
                          !.found = @ (+) SetToBag({ValueOf(StoreGet(regKeys, k))})]
           ELSE [q EXCEPT !.todo = @ \ {k}, !.pc = "srem", !.key = k])
    /\ UNCHANGED <<now, regKeys, regSets, regBegun, regLast, regResult, regGone, regLive, regAnswer,
                   RegOthers>>

\* A faulty variant, to test the sensitivity of C11: the key not found is left
\* in the set of the name.
DiscoverSremSkipped(q) ==
    /\ q.op \in RegDiscovering /\ q.pc = "srem"
    /\ regOps' = (regOps (-) RegPut(q)) (+) RegPut([q EXCEPT !.pc = "scan", !.key = ""])
    /\ UNCHANGED <<now, regKeys, regSets, regBegun, regLast, regResult, regGone, regLive, regAnswer,
                   RegOthers>>

\* discover_service, line 56: SREM the key not found from the set of the name.
DiscoverSrem(q) ==
    /\ q.op \in RegDiscovering /\ q.pc = "srem"
    /\ regSets' = [regSets EXCEPT ![q.name] = @ \ {q.key}]
    /\ regOps' = (regOps (-) RegPut(q)) (+) RegPut([q EXCEPT !.pc = "scan", !.key = ""])
    /\ UNCHANGED <<now, regKeys, regBegun, regLast, regResult, regGone, regLive, regAnswer,
                   RegOthers>>

\* discover_service, line 58: every key has been looked at; return the list.
DiscoverReturn(q) ==
    /\ q.op = "discover" /\ q.pc = "scan"
    /\ q.todo = {}
    /\ regOps' = regOps (-) RegPut(q)
    /\ regLast' = Some(q)
    /\ regResult' = Some([name |-> q.name, services |-> q.found, after |-> q.after,
                          returned |-> now])
    /\ UNCHANGED <<now, regKeys, regSets, regBegun, regGone, regLive, regAnswer,
                   RegOthers>>

\* f"http://{service['host']}:{service['port']}"
EndpointUrl(r) == "http://" \o r.host \o ":" \o ToString(r.port)

\* get_service_endpoint, lines 63-67: None for an empty list, else the address
\* of a record of the list picked by random.choice.
EndpointChoices(services) ==
    IF services = EmptyBag THEN {None}
    ELSE {Some(EndpointUrl(r)) : r \in BagToSet(services)}

\* get_service_endpoint, line 62: discover_service begins, SMEMBERS the set of
\* the name.
GetEndpointSmembers(name) ==
    /\ RegCanBegin
    /\ regBegun' = regBegun + 1
    /\ regOps' = regOps (+) RegPut(
           [op |-> "endpoint", pc |-> "scan", name |-> name, host |-> "", port |-> 0,
            key |-> "", began |-> now, again |-> FALSE,
            after |-> regLast, todo |-> regSets[name], found |-> EmptyBag, url |-> ""])
    /\ UNCHANGED <<now, regKeys, regSets, regLast, regResult, regGone, regLive, regAnswer,
                   RegOthers>>

\* get_service_endpoint, lines 63-67: discover_service has returned; return an
\* address or None.
GetEndpointReturn(q) ==
    /\ q.op = "endpoint" /\ q.pc = "scan"
    /\ q.todo = {}
    /\ regOps' = regOps (-) RegPut(q)
    /\ regLast' = Some(q)
    /\ \E u \in EndpointChoices(q.found) :
           regAnswer' = Some([op |-> "endpoint", name |-> q.name, services |-> q.found,
                              url |-> u, requested |-> FALSE, result |-> u,
                              began |-> q.began, returned |-> now])
    /\ UNCHANGED <<now, regKeys, regSets, regBegun, regResult, regGone, regLive, RegOthers>>

HttpOutcomes == {"json", "text", "client_error", "exception"}

\* call_service, lines 130-136: the value returned after the request, by how
\* the request ended.
CallResult(outcome) ==
    IF outcome \in {"client_error", "exception"} THEN None ELSE Some(outcome)

\* call_service, line 100: get_service_endpoint begins, SMEMBERS the set of the
\* name.
CallServiceSmembers(name) ==
    /\ RegCanBegin
    /\ regBegun' = regBegun + 1
    /\ regOps' = regOps (+) RegPut(
           [op |-> "call", pc |-> "scan", name |-> name, host |-> "", port |-> 0,
            key |-> "", began |-> now, again |-> FALSE,
            after |-> regLast, todo |-> regSets[name], found |-> EmptyBag, url |-> ""])
    /\ UNCHANGED <<now, regKeys, regSets, regLast, regResult, regGone, regLive, regAnswer,
                   RegOthers>>

\* call_service, lines 100-105: get_service_endpoint has returned; with no
\* address the call returns None, else it goes on to the request.
CallServiceResolve(q) ==
    /\ q.op = "call" /\ q.pc = "scan"
    /\ q.todo = {}
    /\ \E u \in EndpointChoices(q.found) :
           IF u = None
           THEN /\ regOps' = regOps (-) RegPut(q)
                /\ regLast' = Some(q)
                /\ regAnswer' = Some([op |-> "call", name |-> q.name, services |-> q.found,
                                      url |-> None, requested |-> FALSE, result |-> None,
                                      began |-> q.began, returned |-> now])
           ELSE /\ regOps' = (regOps (-) RegPut(q)) (+)
                                 RegPut([q EXCEPT !.pc = "http", !.url = ValueOf(u)])
                /\ UNCHANGED <<regLast, regAnswer>>
    /\ UNCHANGED <<now, regKeys, regSets, regBegun, regResult, regGone, regLive, RegOthers>>

\* call_service, lines 107-136: the HTTP request is issued and ends with a
\* JSON body, another body, an aiohttp.ClientError or another exception.
CallServiceRequest(q, outcome) ==
    /\ q.op = "call" /\ q.pc = "http"
    /\ regOps' = regOps (-) RegPut(q)
    /\ regLast' = Some(q)
    /\ regAnswer' = Some([op |-> "call", name |-> q.name, services |-> q.found,
                          url |-> Some(q.url), requested |-> TRUE,
                          result |-> CallResult(outcome),
                          began |-> q.began, returned |-> now])
    /\ UNCHANGED <<now, regKeys, regSets, regBegun, regResult, regGone, regLive, RegOthers>>

\* deregister_service, lines 71-72: DELETE the key.
DeregisterDelete(name, host, port) ==
    /\ RegCanBegin
    /\ regBegun' = regBegun + 1
    /\ regKeys' = StoreDelete(regKeys, ServiceKey(name, host, port))
    /\ regOps' = regOps (+) RegPut(
           [op |-> "deregister", pc |-> "srem", name |-> name, host |-> host, port |-> port,
            key |-> ServiceKey(name, host, port), began |-> now, again |-> FALSE,
            after |-> None, todo |-> {}, found |-> EmptyBag, url |-> ""])
    /\ regLive' = LiveDrop(regLive, {<<name, host, port>>})
    /\ UNCHANGED <<now, regSets, regLast, regResult, regGone, regAnswer,
                   RegOthers>>

\* A faulty variant, to test the sensitivity of C12: the key is left in the
\* set of the name.
DeregisterSremSkipped(q) ==
    /\ q.op = "deregister" /\ q.pc = "srem"
    /\ regOps' = regOps (-) RegPut(q)
    /\ regLast' = Some(q)
    /\ regGone' = regGone \cup {<<q.name, q.host, q.port>>}
    /\ UNCHANGED <<now, regKeys, regSets, regBegun, regResult, regLive, regAnswer,
                   RegOthers>>

\* deregister_service, line 73: SREM the key from the set of the name; the
\* call returns.
DeregisterSrem(q) ==
    /\ q.op = "deregister" /\ q.pc = "srem"
    /\ regSets' = [regSets EXCEPT ![q.name] = @ \ {q.key}]
    /\ regOps' = regOps (-) RegPut(q)
    /\ regLast' = Some(q)
    /\ regGone' = regGone \cup {<<q.name, q.host, q.port>>}
    /\ UNCHANGED <<now, regKeys, regBegun, regResult, regLive, regAnswer,
                   RegOthers>>

\* The clock advances; the store drops the service keys whose TTL has run
\* out.  The sets carry no TTL.
RegTick(d) ==
    /\ now + d <= RegMaxTime
    /\ now' = now + d
    /\ regKeys' = StoreExpire(regKeys, now + d)
    /\ regLive' = LiveDrop(regLive, {i \in DOMAIN regLive : regLive[i] <= now + d})
    /\ UNCHANGED <<regSets, regOps, regBegun, regLast, regResult, regGone, regAnswer,
                   RegOthers>>

\* The registry with an empty store and no call under way.
RegInit ==
    /\ regKeys = <<>>
    /\ regSets = [name \in ServiceNames |-> {}]
    /\ regOps = EmptyBag
    /\ regBegun = 0
    /\ regLast = None
    /\ regResult = None
    /\ regGone = {}
    /\ regLive = <<>>
    /\ regAnswer = None

RegStep ==
    \/ \E q \in BagToSet(regOps) : RegisterSadd(q)
    \/ \E q \in BagToSet(regOps) : \E k \in q.todo : DiscoverGet(q, k)
    \/ \E q \in BagToSet(regOps) : DiscoverSrem(q)
    \/ \E q \in BagToSet(regOps) : DiscoverReturn(q)
    \/ \E q \in BagToSet(regOps) : DeregisterSrem(q)
    \/ \E d \in RegClockSteps : RegTick(d)

RegBegin ==
    \/ \E name \in ServiceNames, host \in Hosts, port \in Ports :
           RegisterSetex(name, host, port)
    \/ \E name \in ServiceNames : DiscoverSmembers(name)
    \/ \E name \in ServiceNames, host \in Hosts, port \in Ports :
           DeregisterDelete(name, host, port)

\* Concurrent callers: a call may begin while another is under way.
RegNext ==
    \/ RegBegin
    \/ RegStep

\* One caller: a call begins when the call before it has returned.
RegNextSeq ==
    \/ regOps = EmptyBag /\ RegBegin
    \/ RegStep

\* Concurrent callers of one name: its instance registers again and again
\* while discover_service calls run; no instance is deregistered.
RaceNext ==
    \/ RegisterSetex("svc", "h1", 80)
    \/ DiscoverSmembers("svc")
    \/ \E q \in BagToSet(regOps) : RegisterSadd(q)
    \/ \E q \in BagToSet(regOps) : \E k \in q.todo : DiscoverGet(q, k)
    \/ \E q \in BagToSet(regOps) : DiscoverSrem(q)
    \/ \E q \in BagToSet(regOps) : DiscoverReturn(q)
    \/ \E d \in RegClockSteps : RegTick(d)

\* The calls of a service client and of the instances it looks for.
ClientBegin ==
    \/ \E name \in ServiceNames, host \in Hosts, port \in Ports :
           RegisterSetex(name, host, port)
    \/ \E name \in ServiceNames, host \in Hosts, port \in Ports :
           DeregisterDelete(name, host, port)
    \/ \E name \in ServiceNames : GetEndpointSmembers(name)
    \/ \E name \in ServiceNames : CallServiceSmembers(name)

ClientStep ==
    \/ \E q \in BagToSet(regOps) : RegisterSadd(q)
    \/ \E q \in BagToSet(regOps) : \E k \in q.todo : DiscoverGet(q, k)
    \/ \E q \in BagToSet(regOps) : DiscoverSrem(q)
    \/ \E q \in BagToSet(regOps) : DeregisterSrem(q)
    \/ \E q \in BagToSet(regOps) : GetEndpointReturn(q)
    \/ \E q \in BagToSet(regOps) : CallServiceResolve(q)
    \/ \E q \in BagToSet(regOps) : \E outcome \in HttpOutcomes : CallServiceRequest(q, outcome)
    \/ \E d \in RegClockSteps : RegTick(d)

\* One caller at a time registers, deregisters, asks for an endpoint or calls.
ClientNextSeq ==
    \/ regOps = EmptyBag /\ ClientBegin
    \/ ClientStep

(***************************************************************************)
(* Monitoring service: system_health                                       *)
(*                                                                         *)
(* system_health makes one check_service_health coroutine per entry of     *)
(* SERVICES and awaits asyncio.gather of them: the probes run interleaved  *)
(* and end in any order, and gather returns their results in the order of  *)
(* its arguments.  A ServiceHealth is kept as service_name, status and     *)
(* details; response_time and timestamp are clock readings.  The field    *)
(* outcome is history: how the probe ended.                                *)
(***************************************************************************)
SERVICES == <<"planner-service", "frontend-service", "redis", "elasticsearch">>

ServiceNamesMonitored == {SERVICES[i] : i \in 1 .. Len(SERVICES)}

\* How a probe may end: the PING answers or raises; the GET answers with a
\* status code or raises (connection error, timeout).
ProbeOutcomes(service_name) ==
    IF service_name = "redis" THEN {"pong", "raised"} ELSE {"200", "503", "raised"}

\* A faulty variant, to test the sensitivity of C24: every answer counts as
\* healthy, whatever its status code.
ProbeStatusAnyAnswer(outcome) == IF outcome = "raised" THEN "unhealthy" ELSE "healthy"

\* check_service_health, lines 50-64: the status of the probe.
ProbeStatus(outcome) == IF outcome \in {"pong", "200"} THEN "healthy" ELSE "unhealthy"

\* check_service_health, lines 55, 60 and 64: the details of the probe.
ProbeDetails(outcome) ==
    CASE outcome = "pong" -> [connected |-> "True"]
      [] outcome = "raised" -> [error |-> "str(e)"]
      [] OTHER -> [status_code |-> outcome]

\* system_health, lines 87-92: the coroutines are made and gathered.
SystemHealthBegin ==
    /\ healthTasks = None
    /\ healthCalls < MaxHealthCalls
    /\ healthCalls' = healthCalls + 1
    /\ healthTasks' = Some([n \in ServiceNamesMonitored |-> None])
    /\ UNCHANGED <<healthResult, MonOthers>>

\* check_service_health, lines 46-75: one probe ends and its task returns its
\* ServiceHealth; an exception of the probe is caught at line 62.
CheckServiceHealth(service_name, outcome) ==
    /\ healthTasks # None
    /\ ValueOf(healthTasks)[service_name] = None
    /\ healthTasks' = Some([ValueOf(healthTasks) EXCEPT ![service_name] =
                               Some([service_name |-> service_name,
                                     outcome |-> outcome,
                                     status |-> ProbeStatus(outcome),
                                     details |-> ProbeDetails(outcome)])])
    /\ UNCHANGED <<healthResult, healthCalls, MonOthers>>

\* system_health, lines 92-103: gather returns once every task has returned;
\* the overall status is unhealthy when some status is not healthy.
SystemHealthReturn ==
    /\ healthTasks # None
    /\ \A n \in ServiceNamesMonitored : ValueOf(healthTasks)[n] # None
    /\ LET health_checks == [i \in 1 .. Len(SERVICES) |-> ValueOf(ValueOf(healthTasks)[SERVICES[i]])]
           unhealthy_services == {i \in 1 .. Len(SERVICES) : health_checks[i].status # "healthy"}
       IN  healthResult' = Some([overall_status |-> IF unhealthy_services # {} THEN "unhealthy"
                                                    ELSE "healthy",
                                 services |-> health_checks])
    /\ healthTasks' = None
    /\ UNCHANGED <<healthCalls, MonOthers>>

MonInit ==
    /\ healthTasks = None
    /\ healthResult = None
    /\ healthCalls = 0

MonNext ==
    \/ SystemHealthBegin
    \/ \E n \in ServiceNamesMonitored : \E outcome \in ProbeOutcomes(n) : CheckServiceHealth(n, outcome)
    \/ SystemHealthReturn

(***************************************************************************)
(* Planner service: generate_itinerary                                     *)
(*                                                                         *)
(* The handler is a coroutine with no await, so the requests of the        *)
(* service run one at a time; creating the itinerary takes time, and the   *)
(* clock and clear_cache may step between its GET and its SETEX.           *)
(* TravelPlanner.create_itineary returns a text or raises.  The interests  *)
(* of the requests hold no comma, so the list split(",") gives has the     *)
(* one element.                                                            *)
(***************************************************************************)
CacheTtl == 3600

\* str.lower() on the strings of PlanRequests.
Lower(str) ==
    CASE str = "Rome" -> "rome"
      [] str = "ART" -> "art"
      [] OTHER -> str

\* A faulty variant, to test the sensitivity of C25: the key is made of the
\* strings as given.
get_cache_key_exact(city, interests) == city \o ":" \o interests

\* get_cache_key, lines 57-58: md5 of f"{city.lower()}:{interests.lower()}";
\* distinct texts have distinct digests, so the key is kept as the text.
get_cache_key(city, interests) == Lower(city) \o ":" \o Lower(interests)

\* The city and the interests of a request, compared without case.
PlanClass(r) == <<Lower(r.city), Lower(r.interests)>>

\* What create_itineary raises: a CustomException or another exception;
\* text is what str(e) gives.
GeneratorErrors == {[type |-> "CustomException", text |-> "Test error"],
                    [type |-> "Exception", text |-> "Unexpected error"]}

NoError == [type |-> "", text |-> ""]

\* A faulty variant, to test the sensitivity of C26: every failure is
\* answered as an internal error.
FailureResponseInternal(e) == [status |-> 500, detail |-> "Internal server error"]

\* generate_itinerary, lines 116-121: the HTTPException for a failure.
FailureResponse(e) ==
    IF e.type = "CustomException"
    THEN [status |-> 400, detail |-> e.text]
    ELSE [status |-> 500, detail |-> "Internal server error"]

\* generate_itinerary, lines 78-91: GET the key; a hit is answered from the
\* cached record.
GenerateItineraryGet(r) ==
    /\ planReq = None
    /\ planCalls < MaxPlanCalls
    /\ planCalls' = planCalls + 1
    /\ LET cache_key == get_cache_key(r.city, r.interests)
           cached_result == StoreGet(planStore, cache_key)
       IN  IF cached_result # None
           THEN /\ planLast' = Some([city |-> r.city, interests |-> r.interests,
                                     status |-> 200, detail |-> "", cached |-> TRUE,
                                     raised |-> NoError,
                                     data |-> cached_result, serial |-> planCalls + 1])
                /\ planReq' = None
           ELSE /\ planReq' = Some([city |-> r.city, interests |-> r.interests,
                                    key |-> cache_key, began |-> now])
                /\ UNCHANGED planLast
    /\ UNCHANGED <<now, planStore, planGenerated, planFresh, PlanOthers>>

\* generate_itinerary, lines 94-112: create_itineary returned a text; SETEX
\* the response data for an hour and answer with it.
GenerateItineraryStore(itinerary) ==
    /\ planReq # None
    /\ LET q == ValueOf(planReq)
           response_data == [itinerary |-> itinerary, city |-> q.city,
                             interests |-> <<q.interests>>, generated_at |-> now]
       IN  /\ planStore' = StoreSetex(planStore, q.key, CacheTtl, response_data, now)
           /\ planLast' = Some([city |-> q.city, interests |-> q.interests,
                                status |-> 200, detail |-> "", cached |-> FALSE,
                                raised |-> NoError,
                                data |-> Some(response_data), serial |-> planCalls])
    /\ planFresh' = [c \in DOMAIN planFresh \cup {PlanClass(ValueOf(planReq))} |->
                         IF c = PlanClass(ValueOf(planReq))
                         THEN [itinerary |-> itinerary, exp |-> now + CacheTtl]
                         ELSE planFresh[c]]
    /\ planReq' = None
    /\ planGenerated' = planGenerated + 1
    /\ UNCHANGED <<now, planCalls, PlanOthers>>

\* generate_itinerary, lines 94-99 and 116-121: create_itineary raised e.
GenerateItineraryFail(e) ==
    /\ planReq # None
    /\ LET q == ValueOf(planReq)
       IN  planLast' = Some([city |-> q.city, interests |-> q.interests,
                             status |-> FailureResponse(e).status,
                             detail |-> FailureResponse(e).detail,
                             raised |-> e,
                             cached |-> FALSE, data |-> None, serial |-> planCalls])
    /\ planReq' = None
    /\ planGenerated' = planGenerated + 1
    /\ UNCHANGED <<now, planStore, planCalls, planFresh, PlanOthers>>

\* clear_cache, line 140: FLUSHDB.
clear_cache ==
    /\ planStore # <<>>
    /\ planStore' = <<>>
    /\ planFresh' = <<>>
    /\ UNCHANGED <<now, planReq, planLast, planGenerated, planCalls, PlanOthers>>

\* The clock advances; the store drops the cache entries whose TTL has run
\* out.
PlanTick(d) ==
    /\ now + d <= PlanMaxTime
    /\ now' = now + d
    /\ planStore' = StoreExpire(planStore, now + d)
    /\ planFresh' = [c \in {x \in DOMAIN planFresh : planFresh[x].exp > now + d} |-> planFresh[c]]
    /\ UNCHANGED <<planReq, planLast, planGenerated, planCalls, PlanOthers>>

PlanInit ==
    /\ planStore = <<>>
    /\ planReq = None
    /\ planLast = None
    /\ planGenerated = 0
    /\ planCalls = 0
    /\ planFresh = <<>>

PlanNext ==
    \/ \E r \in PlanRequests : GenerateItineraryGet(r)
    \/ \E itinerary \in Itineraries : GenerateItineraryStore(itinerary)
    \/ \E e \in GeneratorErrors : GenerateItineraryFail(e)
    \/ clear_cache
    \/ \E d \in PlanClockSteps : PlanTick(d)

(***************************************************************************)
(* Auth service: login, logout, verify_token                               *)
(*                                                                         *)
(* A token is the HS256 JWT of {sub, roles, exp}: the same user and the    *)
(* same second of expiry give the same token, and no client can make a     *)
(* token the service has not issued.  The token is kept as its payload     *)
(* <<sub, exp>>; BadToken is a text jwt.decode rejects.  The hashes of the *)
(* demo users are in the store.                                            *)
(***************************************************************************)
TokenLife == 1800

BadToken == <<"", 0>>

AuthEndpoints == {"verify", "me", "sessions"}

\* create_access_token, lines 96-106, as login calls it.
create_access_token(username, t) == <<username, t + TokenLife>>

\* jwt.decode, line 111: the signature is good and exp is not reached.
JwtDecodes(token, t) == token # BadToken /\ token[2] > t

\* A faulty variant, to test the sensitivity of C33: no token is found on the
\* blacklist.
BlacklistedNever(store, token) == FALSE

\* verify_token, line 120: GET blacklist:{token}.
Blacklisted(store, token) == StoreGet(store, <<"blacklist", token>>) # None

\* verify_token, lines 108-143, then the endpoint: 401 for a token that does
\* not decode, is on the blacklist or names no user; 403 for /auth/sessions
\* without the role admin (line 213).
AuthStatus(endpoint, token, store, t) ==
    IF ~JwtDecodes(token, t) \/ Blacklisted(store, token) \/ token[1] \notin Users
    THEN 401
    ELSE IF endpoint = "sessions" /\ token[1] # "admin" THEN 403 ELSE 200

\* login, lines 150-179: the credentials are right (ok) or wrong.
login(username, ok) ==
    /\ authCalls < MaxAuthCalls
    /\ authCalls' = authCalls + 1
    /\ IF ok
       THEN /\ authStore' = StoreSetex(authStore,
                                       <<"session", create_access_token(username, now)>>,
                                       TokenLife, username, now)
            /\ authIssued' = authIssued \cup {create_access_token(username, now)}
            /\ authLast' = [op |-> "login", token |-> create_access_token(username, now),
                            status |-> 200, serial |-> authCalls + 1]
       ELSE /\ authLast' = [op |-> "login", token |-> BadToken, status |-> 401,
                            serial |-> authCalls + 1]
            /\ UNCHANGED <<authStore, authIssued>>
    /\ UNCHANGED <<now, authOut, AuthOthers>>

\* logout, lines 181-190: SETEX blacklist:{token} for the life of a token,
\* DELETE session:{token}.
logout(token) ==
    /\ authCalls < MaxAuthCalls
    /\ authCalls' = authCalls + 1
    /\ authStore' = StoreDelete(StoreSetex(authStore, <<"blacklist", token>>, TokenLife, "1", now),
                                <<"session", token>>)
    /\ authOut' = authOut \cup {token}
    /\ authLast' = [op |-> "logout", token |-> token, status |-> 200, serial |-> authCalls + 1]
    /\ UNCHANGED <<now, authIssued, AuthOthers>>

\* /auth/verify, /auth/me, /auth/sessions, lines 192-224: verify_token and
\* the answer.
AuthVerify(endpoint, token) ==
    /\ authCalls < MaxAuthCalls
    /\ authCalls' = authCalls + 1
    /\ authLast' = [op |-> endpoint, token |-> token,
                    status |-> AuthStatus(endpoint, token, authStore, now),
                    serial |-> authCalls + 1]
    /\ UNCHANGED <<now, authStore, authIssued, authOut, AuthOthers>>

\* The clock advances; the store drops the keys whose TTL has run out.
AuthTick(d) ==
    /\ now + d <= AuthMaxTime
    /\ now' = now + d
    /\ authStore' = StoreExpire(authStore, now + d)
    /\ UNCHANGED <<authIssued, authOut, authLast, authCalls, AuthOthers>>

AuthInit ==
    /\ authStore = <<>>
    /\ authIssued = {}
    /\ authOut = {}
    /\ authLast = [op |-> "none", token |-> BadToken, status |-> 0, serial |-> 0]
    /\ authCalls = 0

AuthNext ==
    \/ \E username \in Users, ok \in BOOLEAN : login(username, ok)
    \/ \E token \in authIssued \cup {BadToken} : logout(token)
    \/ \E endpoint \in AuthEndpoints, token \in authIssued \cup {BadToken} :
           AuthVerify(endpoint, token)
    \/ \E d \in AuthClockSteps : AuthTick(d)

(***************************************************************************)
(* Notification service: the send endpoints and their background tasks     *)
(*                                                                         *)
(* The id of a notification is made of the time in microseconds; the ids   *)
(* are kept as the numbers 1, 2, ... in the order of creation.  A task is  *)
(* run once the response of its endpoint has been sent.                    *)
(***************************************************************************)
NotificationTtl == 86400

\* What sending may end in: the try block runs through, or it raises (for a
\* webhook: aiohttp raises, or the status is 400 or above, lines 108-109).
\* Sending an email or an SMS only logs and sleeps.
SendOutcomes(type) == IF type = "webhook" THEN {"ok", "raised"} ELSE {"ok"}

\* A faulty variant, to test the sensitivity of C34: the status of the
\* record is left as it is.
UpdateStatusKept(notification, status) == notification

\* update_notification_status, lines 141-142.
UpdateStatus(notification, status) == [notification EXCEPT !.status = status]

\* send_email, send_sms, send_webhook, lines 154-182, as far as
\* create_notification_status, lines 119-136: SETEX the record with status
\* pending; the task is added.
NotifCreate(type) ==
    /\ Len(notifTasks) < MaxNotifications
    /\ notifStore' = StoreSetex(notifStore, Len(notifTasks) + 1, NotificationTtl,
                                [id |-> Len(notifTasks) + 1, type |-> type, status |-> "pending"],
                                now)
    /\ notifTasks' = Append(notifTasks, [type |-> type, pc |-> "created", status |-> ""])
    /\ notifHist' = Append(notifHist, <<"pending">>)
    /\ UNCHANGED <<now, NotifOthers>>

\* The endpoint returns the id; the response is sent and the task may run.
NotifRespond(id) ==
    /\ notifTasks[id].pc = "created"
    /\ notifTasks' = [notifTasks EXCEPT ![id].pc = "queued"]
    /\ UNCHANGED <<now, notifStore, notifHist, NotifOthers>>

\* send_*_notification, lines 61-117: sending ends, and
\* update_notification_status GETs the record (line 140).
NotifTaskGet(id, outcome) ==
    /\ notifTasks[id].pc = "queued"
    /\ outcome \in SendOutcomes(notifTasks[id].type)
    /\ notifTasks' = [notifTasks EXCEPT
           ![id].pc = IF StoreGet(notifStore, id) # None THEN "setex" ELSE "done",
           ![id].status = IF outcome = "ok" THEN "sent" ELSE "failed"]
    /\ UNCHANGED <<now, notifStore, notifHist, NotifOthers>>

\* update_notification_status, lines 141-151: SETEX the record with the new
\* status.
NotifTaskSetex(id) ==
    /\ notifTasks[id].pc = "setex"
    /\ notifStore' = StoreSetex(notifStore, id, NotificationTtl,
                                UpdateStatus([id |-> id, type |-> notifTasks[id].type,
                                              status |-> "pending"],
                                             notifTasks[id].status), now)
    /\ notifHist' = [notifHist EXCEPT ![id] = Append(@, notifStore'[id].val.status)]
    /\ notifTasks' = [notifTasks EXCEPT ![id].pc = "done"]
    /\ UNCHANGED <<now, NotifOthers>>

\* The clock advances; the store drops the records whose TTL has run out.
NotifTick(d) ==
    /\ now + d <= NotifMaxTime
    /\ now' = now + d
    /\ notifStore' = StoreExpire(notifStore, now + d)
    /\ UNCHANGED <<notifTasks, notifHist, NotifOthers>>

NotifInit ==
    /\ notifStore = <<>>
    /\ notifTasks = <<>>
    /\ notifHist = <<>>

NotifTaskStep ==
    \/ \E id \in DOMAIN notifTasks : NotifRespond(id)
    \/ \E id \in DOMAIN notifTasks : \E outcome \in {"ok", "raised"} : NotifTaskGet(id, outcome)
    \/ \E id \in DOMAIN notifTasks : NotifTaskSetex(id)

NotifNext ==
    \/ \E type \in NotificationTypes : NotifCreate(type)
    \/ NotifTaskStep
    \/ \E d \in NotifClockSteps : NotifTick(d)

(***************************************************************************)
(* CacheManager (shared/database.py)                                       *)
(*                                                                         *)
(* A Python value is kept as its repr, a stored value as its JSON text.    *)
(* json.dumps(value, default=str) and json.loads are given by their        *)
(* results on the values below: a tuple is written as a JSON array and     *)
(* read back as a list, None is written as null, and a dict with a tuple   *)
(* as a key makes json.dumps raise TypeError.                              *)
(***************************************************************************)
MaxCacheCalls == 3
CacheMaxTime == 5400
CacheKeys == {"a", "b"}
CacheClockSteps == {1800}
default_ttl == 3600

\* What a factory_func may return: None or a value.
PyValues == {"{'n': 1}", "{'pair': (1, 2)}", "{'pair': [1, 2]}", "{(1, 2): 'a'}"}
FactoryResults == {None} \cup {Some(v) : v \in PyValues}

\* What another writer of the store may have left under a key.
StoredTexts == {"null", "{", "{\"n\": 1}"}

\* json.dumps raises TypeError: a key of the dict is a tuple.
JsonDumpsRaises(value) == value = Some("{(1, 2): 'a'}")

json_dumps(value) ==
    CASE value = None -> "null"
      [] value = Some("{'n': 1}") -> "{\"n\": 1}"
      [] value = Some("{'pair': (1, 2)}") -> "{\"pair\": [1, 2]}"
      [] value = Some("{'pair': [1, 2]}") -> "{\"pair\": [1, 2]}"

\* json.loads returns a value; on any other text it raises JSONDecodeError.
CmDecodable(text) == text \in {"null", "{\"n\": 1}", "{\"pair\": [1, 2]}"}

json_loads(text) ==
    CASE text = "null" -> None
      [] text = "{\"n\": 1}" -> Some("{'n': 1}")
      [] text = "{\"pair\": [1, 2]}" -> Some("{'pair': [1, 2]}")

\* RedisManager.get: the value under key, None when the key is missing or
\* the store raised RedisError (up = FALSE).
RedisGet(store, key, up) == IF up THEN StoreGet(store, key) ELSE None

\* CacheManager.get_json: the decoded value; None when nothing was read,
\* when the text is empty or does not decode, and when it decodes to None.
get_json(store, key, up) ==
    LET value == RedisGet(store, key, up)
    IN  IF value # None /\ ValueOf(value) # "" /\ CmDecodable(ValueOf(value))
        THEN json_loads(ValueOf(value))
        ELSE None

CmReturned(call, value, n) ==
    [call EXCEPT !.pc = "idle", !.returned = value, !.factoryCalls = n]

\* get_or_set up to its call of set_json: GET, and on a miss the factory
\* and json.dumps.  The except clause of set_json names
\* json.JSONEncodeError, which the json module does not have, so a
\* TypeError of json.dumps leaves get_or_set as an AttributeError.
CmGet(key, factory, up) ==
    /\ cmCall.pc = "idle"
    /\ cmCalls < MaxCacheCalls
    /\ LET value == get_json(cmStore, key, up)
           call == [pc |-> "set", key |-> key, factory |-> factory,
                    seen |-> StoreGet(cmStore, key), at |-> now,
                    returned |-> None, factoryCalls |-> 1, raised |-> FALSE]
       IN  IF value # None
           THEN cmCall' = CmReturned(call, value, 0) /\ cmCalls' = cmCalls + 1
           ELSE IF factory = None
           THEN cmCall' = CmReturned(call, None, 1) /\ cmCalls' = cmCalls + 1
           ELSE IF JsonDumpsRaises(factory)
           THEN /\ cmCall' = [call EXCEPT !.pc = "idle", !.raised = TRUE]
                /\ cmCalls' = cmCalls + 1
           ELSE cmCall' = call /\ cmCalls' = cmCalls
    /\ UNCHANGED <<now, cmStore, cmFresh, CacheOthers>>

\* The SET of set_json with ex = default_ttl (RedisManager.set returns False
\* when the store raised RedisError), and the return of get_or_set.
CmSet(up) ==
    /\ cmCall.pc = "set"
    /\ IF up
       THEN /\ cmStore' = StoreSetex(cmStore, cmCall.key, default_ttl,
                                     json_dumps(cmCall.factory), now)
            /\ cmFresh' = [cmFresh EXCEPT ![cmCall.key] =
                              [val |-> cmCall.factory, exp |-> now + default_ttl]]
       ELSE UNCHANGED <<cmStore, cmFresh>>
    /\ cmCall' = CmReturned(cmCall, cmCall.factory, 1)
    /\ cmCalls' = cmCalls + 1
    /\ UNCHANGED <<now, CacheOthers>>

\* The clock advances; the store drops the keys whose TTL has run out.
CmTick(d) ==
    /\ now + d <= CacheMaxTime
    /\ now' = now + d
    /\ cmStore' = StoreExpire(cmStore, now + d)
    /\ UNCHANGED <<cmCall, cmCalls, cmFresh, CacheOthers>>

CacheInit ==
    /\ cmStore \in UNION { [ks -> [val : StoredTexts, exp : {NoExpiry}]] :
                              ks \in SUBSET CacheKeys }
    /\ cmCall = [pc |-> "idle", key |-> "a", factory |-> None, seen |-> None, at |-> 0,
                 returned |-> None, factoryCalls |-> 0, raised |-> FALSE]
    /\ cmCalls = 0
    /\ cmFresh = [key \in CacheKeys |-> [val |-> None, exp |-> 0]]

\* The cache manager at rest in an empty store.
CacheIdle ==
    /\ cmStore = <<>>
    /\ cmCall = [pc |-> "idle", key |-> "a", factory |-> None, seen |-> None, at |-> 0,
                 returned |-> None, factoryCalls |-> 0, raised |-> FALSE]
    /\ cmCalls = 0
    /\ cmFresh = [key \in CacheKeys |-> [val |-> None, exp |-> 0]]

CacheNext ==
    \/ \E key \in CacheKeys : \E factory \in FactoryResults : \E up \in BOOLEAN :
           CmGet(key, factory, up)
    \/ \E up \in BOOLEAN : CmSet(up)
    \/ \E d \in CacheClockSteps : CmTick(d)

(***************************************************************************)
(* setup_common_middleware and the request pipeline                        *)
(*                                                                         *)
(* app.add_middleware(cls) puts cls at the head of app.user_middleware     *)
(* (insert(0, ...)), and the application wraps the router in the entries   *)
(* of the list from its last to its first, so the head of the list is the  *)
(* outermost middleware and the first to see a request.  A middleware is   *)
(* kept as its class name.                                                 *)
(***************************************************************************)
add_middleware(stack, cls) == <<cls>> \o stack

\* The add_middleware calls of setup_common_middleware in their order, each
\* with the config flag that enables it (None: always added).
SetupSteps == << [cls |-> "RateLimitMiddleware", flag |-> Some("enable_rate_limiting")],
                 [cls |-> "CircuitBreakerMiddleware", flag |-> Some("enable_circuit_breaker")],
                 [cls |-> "SecurityHeadersMiddleware", flag |-> None],
                 [cls |-> "RequestLoggingMiddleware", flag |-> Some("enable_request_logging")],
                 [cls |-> "CORSMiddleware", flag |-> None] >>

ConfigFlags == {"enable_rate_limiting", "enable_circuit_breaker", "enable_request_logging"}

\* The status codes a handler may answer with.
HandlerStatuses == {200, 500}

\* The responses a middleware may return without calling call_next: the 429 of
\* the rate limiter (line 43), the 503 of the circuit breaker (line 120).
EarlyResponses(cls) ==
    CASE cls = "RateLimitMiddleware" -> {429}
      [] cls = "CircuitBreakerMiddleware" -> {503}
      [] OTHER -> {}

\* setup_common_middleware, one add_middleware call (or its skipping) at a time.
SetupStep ==
    /\ pipeSetup < Len(SetupSteps)
    /\ pipeSetup' = pipeSetup + 1
    /\ LET step == SetupSteps[pipeSetup + 1]
       IN  user_middleware' =
               IF step.flag = None \/ pipeConfig[ValueOf(step.flag)]
               THEN add_middleware(user_middleware, step.cls)
               ELSE user_middleware
    /\ UNCHANGED <<pipeConfig, pipeReq, PipeOthers>>

\* A request arrives at the application that was set up.
PipeArrive ==
    /\ pipeSetup = Len(SetupSteps)
    /\ pipeReq.pc = "none"
    /\ pipeReq' = [pc |-> "in", pos |-> 1, entered |-> <<>>, left |-> <<>>, response |-> None]
    /\ UNCHANGED <<pipeConfig, user_middleware, pipeSetup, PipeOthers>>

\* The dispatch of the middleware at pos is entered and calls call_next.
PipeCallNext ==
    /\ pipeReq.pc = "in"
    /\ pipeReq.pos <= Len(user_middleware)
    /\ pipeReq' = [pipeReq EXCEPT !.pos = @ + 1,
                                  !.entered = Append(@, user_middleware[pipeReq.pos])]
    /\ UNCHANGED <<pipeConfig, user_middleware, pipeSetup, PipeOthers>>

\* The dispatch of the middleware at pos is entered and returns a response of
\* its own; the middleware inside it and the handler are not called.
PipeReject(code) ==
    /\ pipeReq.pc = "in"
    /\ pipeReq.pos <= Len(user_middleware)
    /\ code \in EarlyResponses(user_middleware[pipeReq.pos])
    /\ pipeReq' = [pipeReq EXCEPT !.pc = "out",
                                  !.pos = @ - 1,
                                  !.entered = Append(@, user_middleware[pipeReq.pos]),
                                  !.left = Append(@, user_middleware[pipeReq.pos]),
                                  !.response = Some(code)]
    /\ UNCHANGED <<pipeConfig, user_middleware, pipeSetup, PipeOthers>>

\* The innermost call_next reaches the route handler, which answers.
PipeHandler(code) ==
    /\ pipeReq.pc = "in"
    /\ pipeReq.pos = Len(user_middleware) + 1
    /\ pipeReq' = [pipeReq EXCEPT !.pc = "out",
                                  !.pos = @ - 1,
                                  !.entered = Append(@, "handler"),
                                  !.response = Some(code)]
    /\ UNCHANGED <<pipeConfig, user_middleware, pipeSetup, PipeOthers>>

\* call_next returns in the middleware at pos, which returns the response.
PipeLeave ==
    /\ pipeReq.pc = "out"
    /\ pipeReq.pos >= 1
    /\ pipeReq' = [pipeReq EXCEPT !.pos = @ - 1,
                                  !.left = Append(@, user_middleware[pipeReq.pos])]
    /\ UNCHANGED <<pipeConfig, user_middleware, pipeSetup, PipeOthers>>

PipeNoRequest == [pc |-> "none", pos |-> 0, entered |-> <<>>, left |-> <<>>, response |-> None]

PipeInit ==
    /\ pipeConfig \in [ConfigFlags -> BOOLEAN]
    /\ user_middleware = <<>>
    /\ pipeSetup = 0
    /\ pipeReq = PipeNoRequest

\* The application before setup_common_middleware, with the default config.
PipeIdle ==
    /\ pipeConfig = [f \in ConfigFlags |-> TRUE]
    /\ user_middleware = <<>>
    /\ pipeSetup = 0
    /\ pipeReq = PipeNoRequest

PipeNext ==
    \/ SetupStep
    \/ PipeArrive
    \/ PipeCallNext
    \/ \E code \in {429, 503} : PipeReject(code)
    \/ \E code \in HandlerStatuses : PipeHandler(code)
    \/ PipeLeave

(***************************************************************************)
(* A request through the circuit breaker and the rate limiter              *)
(*                                                                         *)
(* Both middlewares are enabled and the requests come one at a time.  The  *)
(* record of the rate limiter is kept until the response has left the      *)
(* circuit breaker: pc "rejected" is the 429 on its way out, pc "call" is  *)
(* the handler running.                                                    *)
(***************************************************************************)
RECURSIVE BuildStack(_, _)
\* setup_common_middleware, lines 181-211, with every flag set: the stack
\* after the add_middleware calls from the i-th on.
BuildStack(stack, i) ==
    IF i > Len(SetupSteps) THEN stack
    ELSE BuildStack(add_middleware(stack, SetupSteps[i].cls), i + 1)

\* Middleware a is nearer to the client than middleware b.
Outside(a, b) ==
    \E i, j \in 1 .. Len(BuildStack(<<>>, 1)) :
        /\ i < j
        /\ BuildStack(<<>>, 1)[i] = a
        /\ BuildStack(<<>>, 1)[j] = b

\* The request enters the circuit breaker.
StackArrive(p) ==
    /\ cbReqs = EmptyBag
    /\ rlReqs = EmptyBag
    /\ CBBegin(p)

\* call_next of the circuit breaker, line 130: the request enters the rate
\* limiter.
StackCallNext(c) ==
    /\ rlReqs = EmptyBag
    /\ \E q \in BagToSet(cbReqs) : q.pc = "call"
    /\ RLBegin(c)

\* The 429 of the rate limiter is the response of call_next, line 130.
StackRejected(q) ==
    /\ \E r \in BagToSet(rlReqs) : r.pc = "rejected"
    /\ CBSuccess(q)

\* The handler answered below 500.
StackHandlerOk(q) ==
    /\ \E r \in BagToSet(rlReqs) : r.pc = "call"
    /\ CBSuccess(q)

\* The handler answered 500 or raised.
StackHandlerFailed(q) ==
    /\ \E r \in BagToSet(rlReqs) : r.pc = "call"
    /\ CBFailure(q)

\* The response has left the circuit breaker.
StackLeave(r) ==
    /\ cbReqs = EmptyBag
    /\ RLReturn(r)

StackInit ==
    /\ Outside("CircuitBreakerMiddleware", "RateLimitMiddleware")
    /\ RLInit
    /\ CBInit

StackNext ==
    \/ \E p \in Paths : StackArrive(p)
    \/ \E q \in BagToSet(cbReqs) : CBSetHalfOpen(q)
    \/ \E q \in BagToSet(cbReqs) : CBReturn(q)
    \/ \E c \in Clients : StackCallNext(c)
    \/ \E r \in BagToSet(rlReqs) : RLFirst(r)
    \/ \E r \in BagToSet(rlReqs) : RLIncr(r)
    \/ \E q \in BagToSet(cbReqs) : StackRejected(q)
    \/ \E q \in BagToSet(cbReqs) : StackHandlerOk(q)
    \/ \E q \in BagToSet(cbReqs) : StackHandlerFailed(q)
    \/ \E q \in BagToSet(cbReqs) : CBRecordSet(q)
    \/ \E r \in BagToSet(rlReqs) : StackLeave(r)
    \/ CBTick

(***************************************************************************)
(* Specifications: one component runs, the others stay idle.               *)
(***************************************************************************)
InitRL == RLInit /\ CBIdle /\ BusInit /\ RegInit /\ PipeIdle /\ BrkInit /\ MonInit /\ PlanInit /\ AuthInit /\ NotifInit /\ CacheIdle

InitCB == CBInit /\ RLIdle /\ BusInit /\ RegInit /\ PipeIdle /\ BrkInit /\ MonInit /\ PlanInit /\ AuthInit /\ NotifInit /\ CacheIdle

InitBus == now = 0 /\ RLIdle /\ CBIdle /\ BusInit /\ RegInit /\ PipeIdle /\ BrkInit /\ MonInit /\ PlanInit /\ AuthInit /\ NotifInit /\ CacheIdle

InitReg == now = 0 /\ RLIdle /\ CBIdle /\ BusInit /\ RegInit /\ PipeIdle /\ BrkInit /\ MonInit /\ PlanInit /\ AuthInit /\ NotifInit /\ CacheIdle

InitPipe == now = 0 /\ RLIdle /\ CBIdle /\ BusInit /\ RegInit /\ PipeInit /\ BrkInit /\ MonInit /\ PlanInit /\ AuthInit /\ NotifInit /\ CacheIdle

SpecRL == InitRL /\ [][RLNext]_vars

SpecRLSeq == InitRL /\ [][RLNextSeq]_vars

SpecCB == InitCB /\ [][CBNext]_vars

SpecCBSeq == InitCB /\ [][CBNextSeq]_vars

SpecBus == InitBus /\ [][BusNext]_vars

SpecBusLive == InitBus /\ [][BusLiveNext]_vars

SpecReg == InitReg /\ [][RegNext]_vars

SpecRegSeq == InitReg /\ [][RegNextSeq]_vars

SpecClientSeq == InitReg /\ [][ClientNextSeq]_vars

InitMon == now = 0 /\ RLIdle /\ CBIdle /\ BusInit /\ RegInit /\ PipeIdle /\ BrkInit /\ MonInit /\ PlanInit /\ AuthInit /\ NotifInit /\ CacheIdle

SpecMon == InitMon /\ [][MonNext]_vars

InitPlan == now = 0 /\ RLIdle /\ CBIdle /\ BusInit /\ RegInit /\ PipeIdle /\ BrkInit /\ MonInit /\ PlanInit /\ AuthInit /\ NotifInit /\ CacheIdle

SpecPlan == InitPlan /\ [][PlanNext]_vars

SpecPipe == InitPipe /\ [][PipeNext]_vars

InitBrk == CBInit /\ RLIdle /\ BusInit /\ RegInit /\ PipeIdle /\ BrkInit /\ MonInit /\ PlanInit /\ AuthInit /\ NotifInit /\ CacheIdle

SpecBrk == InitBrk /\ [][BrkSeqNext]_vars

InitAuth == now = 0 /\ RLIdle /\ CBIdle /\ BusInit /\ RegInit /\ PipeIdle /\ BrkInit /\ MonInit /\ PlanInit /\ AuthInit /\ NotifInit /\ CacheIdle

SpecAuth == InitAuth /\ [][AuthNext]_vars

InitNotif == now = 0 /\ RLIdle /\ CBIdle /\ BusInit /\ RegInit /\ PipeIdle /\ BrkInit /\ MonInit /\ PlanInit /\ AuthInit /\ NotifInit /\ CacheIdle

\* The endpoint returns and the event loop runs the task it has added.
SpecNotif == InitNotif /\ [][NotifNext]_vars /\ WF_vars(NotifTaskStep)

InitCache == now = 0 /\ RLIdle /\ CBIdle /\ BusInit /\ RegInit /\ PipeIdle /\ BrkInit /\ MonInit /\ PlanInit /\ AuthInit /\ NotifInit /\ CacheInit

SpecCache == InitCache /\ [][CacheNext]_vars

SpecRegRace == InitReg /\ [][RaceNext]_vars

InitStack == StackInit /\ BusInit /\ RegInit /\ PipeIdle /\ BrkInit /\ MonInit /\ PlanInit /\ AuthInit /\ NotifInit /\ CacheIdle

SpecStack == InitStack /\ [][StackNext]_vars

InitOutage == RLInit /\ CBIdle /\ BusInit /\ RegInit /\ PipeIdle /\ BrkInit /\ MonInit /\ PlanInit /\ AuthInit /\ NotifInit /\ CacheIdle

SpecOutage == InitOutage /\ [][OutageNext]_vars

InitDamaged == DamagedInit /\ RLIdle /\ BusInit /\ RegInit /\ PipeIdle /\ MonInit /\ PlanInit /\ AuthInit /\ NotifInit /\ CacheIdle

SpecDamaged == InitDamaged /\ [][DamagedNext]_vars

(***************************************************************************)
(* Claims about the rate limiter                                           *)
(***************************************************************************)
RLDecided(q) == q.pc \in {"call", "rejected"}

\* C1: when a client sends its requests one after another inside one window,
\* the first requests_per_minute of them are permitted (passed to the handler)
\* and the next one is rejected with 429 and a retry_after in 0..60, for every
\* limit including 0 and 1.  While a request of a sequential client is in the
\* middleware, rlBegun of its key is its position in the window.
C1_FirstRPermittedNextRejected ==
    \A q \in BagToSet(rlReqs) :
        RLDecided(q) =>
            /\ rlBegun[q.key] <= requests_per_minute => q.pc = "call"
            /\ rlBegun[q.key] = requests_per_minute + 1 =>
                   q.pc = "rejected" /\ q.retry_after \in 0 .. RateWindow

\* C7: in every reachable state the stored counter of every client and window
\* is at most requests_per_minute, also when the reads and increments of
\* concurrent requests interleave.
C7_CounterAtMostLimit ==
    \A k \in DOMAIN rlStore : rlStore[k].val <= requests_per_minute

\* The requests of key k that found no counter and were passed to the handler.
RLAdmittedFresh(k) ==
    {q \in BagToSet(rlReqs) : q.key = k /\ q.pc = "call" /\ q.cur = None}

\* C8: when several requests of one client arrive concurrently in a window
\* whose counter does not exist yet, the number of them admitted exceeds
\* requests_per_minute by at most one.
C8_AtMostOneExtraAdmitted ==
    \A k \in RLKeys : CopiesOf(rlReqs, RLAdmittedFresh(k)) <= requests_per_minute + 1

\* The requests whose response leaves the rate limiter in this step.
RLReturning == {q \in BagToSet(rlReqs) :
                   RLDecided(q) /\ CopiesIn(q, rlReqs') < CopiesIn(q, rlReqs)}

\* C17: every response that leaves the rate limiter, the 429 included, has
\* the limit header requests_per_minute and the remaining header
\* max(0, requests_per_minute - n), n being the requests of the client
\* permitted so far in the window, this one included.
C17_ResponsesCarryLimitAndRemaining ==
    [][\A q \in RLReturning :
          RLHeaders(q, requests_per_minute) =
              Some([limit |-> ToString(requests_per_minute),
                    remaining |-> ToString(Max(0, requests_per_minute - rlAdmitted[q.key]))])]_vars

(***************************************************************************)
(* Claims about the circuit breaker middleware                             *)
(***************************************************************************)
CBRecord(p) == cbStore[p].val

CBIsOpen(p) == p \in DOMAIN cbStore /\ CBRecord(p).state = "open"

\* The requests of path p that this step lets into the middleware.
CBArriving(p) ==
    {q \in BagToSet(cbReqs') :
        /\ q.path = p
        /\ cbBegun' = cbBegun + 1
        /\ CopiesIn(q, cbReqs') > CopiesIn(q, cbReqs)}

\* C2: after exactly failure_threshold consecutive failed requests on a path
\* (none succeeded in between, the record has not expired), for every threshold
\* from 1 on, the breaker of the path is open, and the next request of the path
\* (arriving before the recovery timeout has passed) is rejected with 503.
C2_ThresholdFailuresOpen ==
    /\ [](\A p \in Paths :
            CBQuiet(p) /\ cbStreak[p] = failure_threshold => CBIsOpen(p))
    /\ [][\A p \in Paths :
            /\ CBQuiet(p)
            /\ cbStreak[p] = failure_threshold
            /\ p \in DOMAIN cbStore
            /\ now < CBRecord(p).last_failure + recovery_timeout
            => \A q \in CBArriving(p) : q.pc = "rejected"]_vars

\* C3 as claimed: once the breaker of a path has been opened, a request
\* arriving before last_failure + recovery_timeout is rejected and leaves the
\* record unchanged, and the first request arriving at or after that time,
\* whenever it arrives, is the one that sets the state half-open and goes on to
\* the handler.
C3_FirstLateRequestSetsHalfOpen ==
    [][\A p \in Paths :
        cbOpenAt[p] # None =>
            \A q \in CBArriving(p) :
                IF now < ValueOf(cbOpenAt[p]) + recovery_timeout
                THEN q.pc = "rejected" /\ cbStore' = cbStore
                ELSE q.pc = "half_open"]_vars

\* C3 as amended: while the record of a path is stored with state open, a
\* request arriving before last_failure + recovery_timeout is rejected with 503
\* and leaves the record unchanged, and a request arriving at or after that
\* time sets the state half-open with its next store command and is passed to
\* the handler; once the open record has expired (2 * recovery_timeout after
\* its last write) an arriving request is passed to the handler and writes no
\* record.
C3_OpenRecordRejectsThenHalfOpens ==
    [][\A p \in Paths :
        /\ CBIsOpen(p) =>
              \A q \in CBArriving(p) :
                  IF now < CBRecord(p).last_failure + recovery_timeout
                  THEN q.pc = "rejected" /\ cbStore' = cbStore
                  ELSE q.pc = "half_open" /\ cbStore' = cbStore
        /\ \A q \in BagToSet(cbReqs) :
              q.path = p /\ q.pc = "half_open" /\ CopiesIn(q, cbReqs') < CopiesIn(q, cbReqs)
              => /\ p \in DOMAIN cbStore'
                 /\ cbStore'[p].val.state = "half-open"
                 /\ CopiesIn([q EXCEPT !.pc = "call"], cbReqs')
                        > CopiesIn([q EXCEPT !.pc = "call"], cbReqs)
        /\ cbOpenAt[p] # None /\ p \notin DOMAIN cbStore =>
              \A q \in CBArriving(p) : q.pc = "call" /\ cbStore' = cbStore]_vars

\* C3 witness: the request that found the record open after the recovery
\* timeout has set it half-open and is in the handler.
C3_Witness ==
    \E q \in BagToSet(cbReqs) :
        /\ q.pc = "call"
        /\ q.data # None
        /\ ValueOf(q.data).state = "open"
        /\ q.path \in DOMAIN cbStore
        /\ CBRecord(q.path).state = "half-open"

\* C4: when the breaker of a path is half-open and the probe completes below
\* 500, no failure record of the path remains (closed, failure count 0), so
\* that fewer than failure_threshold failures after it do not open the breaker.
C4_ProbeSuccessCloses ==
    \A p \in Paths :
        /\ CBQuiet(p) /\ cbLast[p] = "probe_ok" => p \notin DOMAIN cbStore
        /\ CBQuiet(p) /\ cbSince[p] # None /\ ValueOf(cbSince[p]) < failure_threshold
               => ~CBIsOpen(p)

\* C4 witness: the probe of a path has succeeded, failure_threshold - 1
\* requests have failed since, and the breaker is closed.
C4_Witness ==
    \E p \in Paths :
        /\ CBQuiet(p)
        /\ failure_threshold >= 2
        /\ cbSince[p] = Some(failure_threshold - 1)
        /\ p \in DOMAIN cbStore
        /\ CBRecord(p).state = "closed"

\* C5: when the breaker of a path is half-open and the probe fails, the record
\* is written back open with last_failure the time of that failure, and it
\* stays stored and open, rejecting requests, for a full recovery_timeout from
\* that failure.
C5_ProbeFailureReopens ==
    /\ [](\A p \in Paths :
            CBQuiet(p) /\ cbLast[p] = "probe_failed" =>
                /\ cbOpenAt[p] # None
                /\ now < ValueOf(cbOpenAt[p]) + recovery_timeout =>
                       /\ CBIsOpen(p)
                       /\ CBRecord(p).last_failure = ValueOf(cbOpenAt[p])
                       /\ CBBeforeCall(StoreGet(cbStore, p), now, recovery_timeout)
                              = "rejected")
    /\ [][\A q \in BagToSet(cbReqs) :
            q.pc = "call" /\ CBIsProbe(q) =>
                \A q2 \in BagToSet(cbReqs') :
                    /\ q2.pc = "record"
                    /\ q2.path = q.path
                    /\ CopiesIn(q2, cbReqs') > CopiesIn(q2, cbReqs)
                    => /\ ValueOf(q2.info).state = "open"
                       /\ ValueOf(q2.info).last_failure = now]_vars

\* C5 witness: the probe of a path has failed, the record is open again and
\* the recovery timeout has not passed since.
C5_Witness ==
    \E p \in Paths :
        /\ CBQuiet(p)
        /\ cbLast[p] = "probe_failed"
        /\ CBIsOpen(p)
        /\ now < CBRecord(p).last_failure + recovery_timeout

\* The probes of path p that are in the handler.
CBProbesInHandler(p) ==
    {q \in BagToSet(cbReqs) : q.path = p /\ q.pc = "call" /\ CBIsProbe(q)}

\* C6: for every path at most one request is in the handler as the half-open
\* probe; a request arriving while the probe has not completed is rejected.
C6_AtMostOneProbe ==
    \A p \in Paths : CopiesOf(cbReqs, CBProbesInHandler(p)) <= 1

\* The breaker state of a path in a store: that of its record, closed when it
\* has none.
CBStateOf(store, p) == IF p \in DOMAIN store THEN store[p].val.state ELSE "closed"

CBTransitions ==
    {<<"closed", "open">>, <<"open", "half-open">>, <<"half-open", "closed">>,
     <<"half-open", "open">>}

\* C14: apart from the expiry of the record, every step that changes the
\* breaker state of a path takes it from closed to open, from open to
\* half-open, from half-open to closed or from half-open to open, also when
\* the requests of the path interleave.
C14_OnlyBreakerTransitions ==
    [][\A p \in Paths :
          CBStateOf(cbStore', p) # CBStateOf(cbStore, p) =>
              \/ now' # now /\ p \in CBExpired(cbStore, now')
              \/ <<CBStateOf(cbStore, p), CBStateOf(cbStore', p)>> \in CBTransitions]_vars

\* The requests whose handler answered below 500 and which leave the
\* middleware in this step (dispatch, lines 133-135 and 140).
CBSucceeding == {q \in BagToSet(cbReqs) :
                    /\ q.pc = "call"
                    /\ CopiesIn(q, cbReqs') < CopiesIn(q, cbReqs)
                    /\ BagCardinality(cbReqs') < BagCardinality(cbReqs)}

\* C15: when a request of a route whose handler neither raised nor answered
\* 500 or above leaves the middleware, no failure record of the route is
\* stored, whatever other requests of the route did while it was in flight.
C15_SuccessLeavesNoRecord ==
    [][\A q \in CBSucceeding : q.path \notin DOMAIN cbStore']_vars

(***************************************************************************)
(* Claims about damaged breaker records                                    *)
(***************************************************************************)
\* The record read cannot be decoded or lacks failures or state.
Damaged(data) ==
    /\ data # None
    /\ \/ ~JsonDecodable(ValueOf(data))
       \/ ~({"failures", "state"} \subseteq DOMAIN ValueOf(data))

\* C18: a breaker record that cannot be decoded or lacks a field is treated
\* as absent by the middleware and by CircuitBreaker: no call raises; a
\* request that read such a record goes on to the handler, and its failure
\* is recorded as the record of a first failure; is_open answers False; and
\* record_failure writes the record of a first failure.
C18_DamagedRecordAsAbsent ==
    /\ \A q \in BagToSet(cbReqs) :
          /\ q.pc # "raised"
          /\ Damaged(q.data) => q.pc \in {"call", "record"}
          /\ Damaged(q.data) /\ q.pc = "record" =>
                 \E t \in 0 .. now :
                     ValueOf(q.info) = CBRecordFailureInfo(None, t, failure_threshold)
    /\ brkCall.result # "raised"
    /\ Damaged(brkCall.data) /\ brkCall.op = "is_open" => brkCall.result = "False"
    /\ Damaged(brkCall.data) /\ brkCall.pc = "setex" =>
           \E t \in 0 .. now :
               ValueOf(brkCall.info) = BrkRecordFailureInfo(None, t, failure_threshold)

(***************************************************************************)
(* Claims about an unreachable store                                       *)
(***************************************************************************)
\* C19: when the store commands fail, neither middleware rejects the request
\* or raises: every request inside the rate limiter and every request inside
\* the circuit breaker is passed on to the handler.
C19_StoreFailurePermits ==
    /\ \A q \in BagToSet(rlReqs) : q.pc = "call"
    /\ \A q \in BagToSet(cbReqs) : q.pc = "call"

(***************************************************************************)
(* Claims about the request pipeline                                       *)
(***************************************************************************)
PipeStages == {"RequestLoggingMiddleware", "RateLimitMiddleware",
               "CircuitBreakerMiddleware", "SecurityHeadersMiddleware"}

PipeAllEnabled == \A f \in ConfigFlags : pipeConfig[f]

IsStage(cls) == cls \in PipeStages

\* C16: with every middleware enabled, a request that reaches the handler
\* entered request logging, then the rate limiter, then the circuit breaker,
\* then the security headers, in this order; and a request enters the circuit
\* breaker only after it entered the rate limiter.
C16_PipelineOrder ==
    PipeAllEnabled =>
        /\ pipeReq.entered # <<>> /\ pipeReq.entered[Len(pipeReq.entered)] = "handler" =>
               SelectSeq(pipeReq.entered, IsStage) =
                   <<"RequestLoggingMiddleware", "RateLimitMiddleware",
                     "CircuitBreakerMiddleware", "SecurityHeadersMiddleware">>
        /\ \A i \in 1 .. Len(pipeReq.entered) :
               pipeReq.entered[i] = "CircuitBreakerMiddleware" =>
                   \E j \in 1 .. i - 1 : pipeReq.entered[j] = "RateLimitMiddleware"

(***************************************************************************)
(* Claims about the event bus                                              *)
(***************************************************************************)
\* C9: after every publish_event the log holds at most 1000 events, and once
\* more than 1000 events have been published it holds exactly the 1000 most
\* recently published ones, newest first.
C9_LogHoldsLast1000 ==
    /\ Len(eventLog) <= 1000
    /\ busPublished > 1000 =>
           /\ Len(eventLog) = 1000
           /\ \A i \in 1 .. Len(eventLog) : eventLog[i] = busPublished - i + 1

\* C22: the list get_event_history(limit) returns, for a limit of 0 or more,
\* holds the min(limit, length of the log) most recently published events,
\* newest first, and so never more than limit events.
C22_HistoryNewestUpToLimit ==
    busHistory # None =>
        LET h == ValueOf(busHistory)
        IN  /\ Len(h.events) = Min(h.limit, Len(eventLog))
            /\ \A i \in 1 .. Len(h.events) : h.events[i] = busPublished - i + 1

\* The messages of event e in the inbox of pubsub n.
BusCopies(n, e) == Cardinality({i \in 1 .. Len(busInbox[n]) : busInbox[n][i].event = e})

\* C23: a pubsub holds every published event at most once, and only events
\* of a channel it subscribed to that were published after it subscribed;
\* a publish_event puts its event at the head of the log whatever pubsubs
\* exist, gives it only to pubsubs that exist at that moment, and a pubsub
\* starts with nothing delivered.
C23_LiveDeliveryAtMostOnce ==
    /\ [](\A n \in DOMAIN busInbox :
             /\ \A e \in 1 .. busPublished : BusCopies(n, e) <= 1
             /\ \A i \in 1 .. Len(busInbox[n]) :
                    /\ busInbox[n][i].event > busSubs[n].since
                    /\ busInbox[n][i].channel \in busSubs[n].channels)
    /\ [][/\ busPublished' = busPublished + 1 =>
                /\ eventLog' # <<>> /\ eventLog'[1] = busPublished'
                /\ DOMAIN busInbox' = DOMAIN busInbox
          /\ \A n \in DOMAIN busInbox' \ DOMAIN busInbox : busInbox'[n] = <<>>]_vars

\* Two events were published: the first pubsub got one of them, and a pubsub
\* that subscribed to its channel later did not.
C23_Witness ==
    /\ Len(busInbox) = 2
    /\ busPublished = 2
    /\ \E m \in {busInbox[1][i] : i \in 1 .. Len(busInbox[1])} :
          /\ m.event = 1
          /\ m.channel \in busSubs[2].channels
          /\ busSubs[2].since = 1
          /\ BusCopies(2, 1) = 0
    /\ eventLog = <<2, 1>>

(***************************************************************************)
(* Claims about the service registry                                       *)
(***************************************************************************)
\* The records of a returned list that carry the host and the port.
RegRecordsFor(services, host, port) ==
    {r \in BagToSet(services) : r.host = host /\ r.port = port}

\* C10: when discover_service(name) is called right after register_service(
\* name, host, port) has returned and returns before the TTL of that
\* registration lapses, its list holds exactly one record with that host and
\* port, also when the registration was a repeated one.
C10_RegisterThenDiscoverOne ==
    regResult # None /\ ValueOf(regResult).after # None =>
        LET res == ValueOf(regResult)
            reg == ValueOf(res.after)
        IN  (/\ reg.op = "register"
             /\ reg.name = res.name
             /\ res.returned < reg.began + RegistryTtl)
            => CopiesOf(res.services, RegRecordsFor(res.services, reg.host, reg.port)) = 1

\* The calls that return in this step.
RegReturning == {q \in BagToSet(regOps) : CopiesIn(q, regOps') < CopiesIn(q, regOps)
                                          /\ regLast' = Some(q)}

RegKeyOf(r) == ServiceKey(r.service_name, r.host, r.port)

RegOthersKept(k) ==
    /\ DOMAIN regKeys' \ {k} = DOMAIN regKeys \ {k}
    /\ \A x \in DOMAIN regKeys \ {k} : regKeys'[x] = regKeys[x]
    /\ \A n \in ServiceNames : regSets'[n] \ {k} = regSets[n] \ {k}

\* C12: when deregister_service(name, host, port) returns, the key of the
\* instance is stored no more and is no member of the set of the name; no step
\* of the call touches another key or another member of a set; and while the
\* instance has not been registered again no discover_service returns its
\* record and the set of its name does not hold its key.
C12_DeregisteredGone ==
    /\ [](\A i \in regGone : ServiceKey(i[1], i[2], i[3]) \notin regSets[i[1]])
    /\ [][/\ \A q \in RegReturning :
                q.op = "deregister" =>
                    /\ q.key \notin DOMAIN regKeys'
                    /\ q.key \notin regSets'[q.name]
          /\ \A q \in BagToSet(regOps) \cup BagToSet(regOps') :
                q.op = "deregister" /\ CopiesIn(q, regOps') # CopiesIn(q, regOps)
                    => RegOthersKept(q.key)
          /\ \A q \in RegReturning :
                q.op = "discover" =>
                    \A i \in regGone :
                        CopiesIn(ServiceInfo(i[1], i[2], i[3]),
                                 ValueOf(regResult').services) = 0]_vars

\* C12 witness: an instance has been deregistered and the discover_service of
\* its name that followed returned another instance of the name.
C12_Witness ==
    /\ regOps = EmptyBag
    /\ regResult # None /\ regLast # None
    /\ ValueOf(regLast).op = "discover"
    /\ ValueOf(regLast).after = ValueOf(regResult).after
    /\ ValueOf(regResult).after # None
    /\ ValueOf(ValueOf(regResult).after).op = "deregister"
    /\ ValueOf(ValueOf(regResult).after).name = ValueOf(regResult).name
    /\ <<ValueOf(ValueOf(regResult).after).name, ValueOf(ValueOf(regResult).after).host,
         ValueOf(ValueOf(regResult).after).port>> \in regGone
    /\ ValueOf(regResult).services # EmptyBag

(***************************************************************************)
(* Claims about the service client                                         *)
(***************************************************************************)
\* The instances of a name that are live: registered, TTL not run out, not
\* deregistered.
RegLiveOf(name) == {i \in DOMAIN regLive : i[1] = name}

\* C13: when a get_service_endpoint(name) made at one instant by the only
\* caller returns, it returns None exactly when discover_service found no
\* record, and otherwise the http://host:port address of an instance of the
\* name that is live, never that of an expired or deregistered one.
C13_EndpointOfLiveInstance ==
    [][\A q \in RegReturning :
          q.op = "endpoint" /\ q.began = now =>
              LET a == ValueOf(regAnswer')
              IN  /\ a.url = None <=> a.services = EmptyBag
                  /\ a.url # None =>
                         \E i \in RegLiveOf(q.name) :
                             ValueOf(a.url) = EndpointUrl([host |-> i[2], port |-> i[3]])]_vars

\* C20: a call_service(name, ...) made while no instance of the name is live
\* (none registered, or all expired or deregistered) returns None and has
\* issued no HTTP request.
C20_NoLiveInstanceNoRequest ==
    [][\A q \in RegReturning :
          q.op = "call" /\ q.began = now /\ RegLiveOf(q.name) = {} =>
              /\ ~ValueOf(regAnswer').requested
              /\ ValueOf(regAnswer').result = None]_vars


\* The failures counted in the breaker record of a service name.
BrkFailures(store, name) ==
    IF name \in DOMAIN store /\ "failures" \in DOMAIN store[name].val
    THEN store[name].val.failures ELSE 0

\* C21: when a call_service(name, ...) that issued its request returns, then
\* if the request ended in a transport error or a timeout the call returns
\* None and the breaker record of the name counts one failure more (and is
\* open once the count has reached failure_threshold); if it got a response,
\* a success is recorded: no breaker record of the name is left.
C21_CallOutcomeFeedsBreaker ==
    [][\A q \in RegReturning :
          q.op = "call" /\ ValueOf(regAnswer').requested =>
              IF ValueOf(regAnswer').result = None
              THEN /\ BrkFailures(brkStore', q.name) = BrkFailures(brkStore, q.name) + 1
                   /\ BrkFailures(brkStore', q.name) >= failure_threshold =>
                          brkStore'[q.name].val.state = "open"
              ELSE q.name \notin DOMAIN brkStore']_vars

(***************************************************************************)
(* Claims about the monitoring service                                     *)
(***************************************************************************)
\* C24: the SystemHealth that system_health returns has exactly one entry
\* for each service of SERVICES, in their order, whatever probes failed or
\* raised; the entry of a service is unhealthy exactly when its own probe
\* raised or was answered with another status than 200; and the overall
\* status is healthy exactly when every entry is healthy.  A call under way
\* returns once every probe has ended.
C24_OneEntryPerDependency ==
    /\ [](healthResult # None =>
             LET h == ValueOf(healthResult)
             IN  /\ Len(h.services) = Len(SERVICES)
                 /\ \A i \in 1 .. Len(SERVICES) :
                        /\ h.services[i].service_name = SERVICES[i]
                        /\ h.services[i].status \in {"healthy", "unhealthy"}
                        /\ h.services[i].status = "healthy" <=>
                               h.services[i].outcome \in {"pong", "200"}
                 /\ h.overall_status = "healthy" <=>
                        \A i \in 1 .. Len(SERVICES) : h.services[i].status = "healthy")
    /\ [][healthTasks # None /\ (\A n \in ServiceNamesMonitored : ValueOf(healthTasks)[n] # None)
              => ENABLED SystemHealthReturn]_vars
    /\ [][healthTasks # None /\ healthTasks' = None =>
              \A i \in 1 .. Len(SERVICES) :
                  ValueOf(healthResult').services[i] = ValueOf(ValueOf(healthTasks)[SERVICES[i]])]_vars

\* A system_health returned in which one probe raised, one was answered 503
\* and the others were healthy.
C24_Witness ==
    /\ healthResult # None
    /\ LET h == ValueOf(healthResult)
       IN  /\ h.overall_status = "unhealthy"
           /\ h.services[1].outcome = "raised"
           /\ h.services[2].outcome = "200"
           /\ h.services[3].outcome = "pong"
           /\ h.services[4].outcome = "503"
           /\ h.services[2].status = "healthy"

(***************************************************************************)
(* Claims about the planner service                                        *)
(***************************************************************************)
\* The request r is received in this step.
PlanBegins(r) ==
    /\ planCalls' = planCalls + 1
    /\ IF planReq' # None
       THEN ValueOf(planReq').city = r.city /\ ValueOf(planReq').interests = r.interests
       ELSE ValueOf(planLast').city = r.city /\ ValueOf(planLast').interests = r.interests

\* C25: once a request for a city and interests was answered with a newly
\* generated itinerary, every later request for the same city and interests,
\* compared without case, made before the hour of the entry is over and
\* before the cache is cleared, is answered at once with cached = true and
\* that itinerary, and the generator is not called; a request that finds no
\* entry under its key calls the generator once, and the answer with the
\* generated itinerary has cached = false.
C25_CachedWithinTheHour ==
    /\ [][\A r \in PlanRequests :
              PlanBegins(r) =>
                  /\ PlanClass(r) \in DOMAIN planFresh =>
                         /\ planReq' = None
                         /\ ValueOf(planLast').serial = planCalls'
                         /\ ValueOf(planLast').status = 200
                         /\ ValueOf(planLast').cached = TRUE
                         /\ ValueOf(ValueOf(planLast').data).itinerary
                                = planFresh[PlanClass(r)].itinerary
                         /\ planGenerated' = planGenerated
                  /\ get_cache_key(r.city, r.interests) \notin DOMAIN planStore =>
                         /\ planReq' # None
                         /\ planGenerated' = planGenerated]_vars
    /\ [][planReq # None =>
              /\ planReq' # None => planGenerated' = planGenerated
              /\ planReq' = None =>
                     /\ planGenerated' = planGenerated + 1
                     /\ ValueOf(planLast').serial = planCalls
                     /\ ValueOf(planLast').status = 200 =>
                            /\ ValueOf(planLast').cached = FALSE
                            /\ ValueOf(planLast').data
                                   = StoreGet(planStore', ValueOf(planReq).key)]_vars

\* A request in the other case of a city whose itinerary was generated is
\* answered from the cache.
C25_Witness ==
    /\ planLast # None
    /\ ValueOf(planLast).cached = TRUE
    /\ ValueOf(planLast).city = "rome"
    /\ ValueOf(planLast).interests = "ART"
    /\ ValueOf(ValueOf(planLast).data).city = "Rome"
    /\ planGenerated = 1

\* C26: when the generator raises on a cache miss, the answer is 400 with
\* the text of the error for a CustomException and 500 with the detail
\* 'Internal server error' for any other exception; the request writes
\* nothing to the cache, and the same request made next is a miss again.
C26_FailureAnswersAndCachesNothing ==
    /\ [][planReq # None /\ planReq' = None /\ ValueOf(planLast').status # 200 =>
              LET e == ValueOf(planLast').raised
                  answer == ValueOf(planLast')
              IN  /\ e \in GeneratorErrors
                  /\ e.type = "CustomException" =>
                         answer.status = 400 /\ answer.detail = e.text
                  /\ e.type # "CustomException" =>
                         answer.status = 500 /\ answer.detail = "Internal server error"
                  /\ planStore' = planStore
                  /\ ValueOf(planReq).key \notin DOMAIN planStore']_vars
    /\ [][\A r \in PlanRequests :
              /\ PlanBegins(r)
              /\ planLast # None
              /\ ValueOf(planLast).status # 200
              /\ ValueOf(planLast).city = r.city
              /\ ValueOf(planLast).interests = r.interests
              => planReq' # None]_vars

\* A request failed with a CustomException and the same request, made next,
\* has missed the cache again.
C26_Witness ==
    /\ planLast # None
    /\ ValueOf(planLast).status = 400
    /\ ValueOf(planLast).detail = "Test error"
    /\ planReq # None
    /\ ValueOf(planReq).city = ValueOf(planLast).city
    /\ ValueOf(planReq).interests = ValueOf(planLast).interests
    /\ planCalls = ValueOf(planLast).serial + 1

(***************************************************************************)
(* Claims about the rate limiter inside the circuit breaker                *)
(***************************************************************************)
\* The rate limiter has answered 429 and the response is on its way out.
RLRejecting == \E r \in BagToSet(rlReqs) : r.pc = "rejected"

\* C27: a request the rate limiter rejects with 429 does not reach the
\* handler, leaves the counter of its client as it is and leaves the
\* circuit-breaker record of its route as it is: while the 429 is on its way
\* out no counter and no record is written or deleted.
C27_RejectionTouchesNothing ==
    [][RLRejecting /\ now' = now =>
           /\ rlStore' = rlStore
           /\ cbStore' = cbStore
           /\ \A r \in BagToSet(rlReqs') : r.pc = "rejected"]_vars

(***************************************************************************)
(* Claims about the registry under concurrent callers                      *)
(***************************************************************************)
\* C28: an instance whose register_service has returned, whose TTL has not
\* run out since and which has not been deregistered is in the list of every
\* discover_service of its name, whatever other discover_service calls and
\* registrations run at the same time: a discover_service that began when
\* the register_service of the instance was the last call to have returned
\* returns the record of the instance.
C28_LiveInstanceAlwaysDiscovered ==
    [][\A q \in RegReturning :
          q.op = "discover" /\ q.after # None =>
              LET reg == ValueOf(q.after)
                  i == <<reg.name, reg.host, reg.port>>
              IN  (/\ reg.op = "register"
                   /\ reg.name = q.name
                   /\ i \in DOMAIN regLive'
                   /\ regLive'[i] = reg.began + RegistryTtl)
                  => CopiesIn(ServiceInfo(reg.name, reg.host, reg.port),
                              ValueOf(regResult').services) >= 1]_vars

(***************************************************************************)
(* Claims about the expiry of the stored records                           *)
(***************************************************************************)
\* The records of store s2 that a step from store s has written.
Written(s, s2) == {k \in DOMAIN s2 : k \notin DOMAIN s \/ s2[k] # s[k]}

\* C29: every write of a circuit-breaker record, whatever its state and be it
\* by the middleware (record of a route) or by CircuitBreaker (record of a
\* service), gives the record an expiry 2 * recovery_timeout after the write.
C29_EveryRecordExpires ==
    [][/\ \A p \in Written(cbStore, cbStore') :
              cbStore'[p].exp = now + 2 * recovery_timeout
       /\ \A name \in Written(brkStore, brkStore') :
              brkStore'[name].exp = now + 2 * recovery_timeout]_vars

\* C30: every rate-limit counter in the store has an expiry, at most 60
\* seconds ahead, so that the store removes it: also the counter a request
\* increments after time has passed since it read it.
C30_EveryCounterExpires ==
    \A k \in DOMAIN rlStore :
        /\ rlStore[k].exp # NoExpiry
        /\ rlStore[k].exp <= now + RateWindow

\* C31: within one window the stored counter of a client never decreases
\* from one state of the store to the next, however the requests of the
\* client interleave, several requests that all read no counter included.
C31_CounterNeverDecreases ==
    [][\A k \in DOMAIN rlStore \cap DOMAIN rlStore' :
           rlStore'[k].val >= rlStore[k].val]_vars

(***************************************************************************)
(* Claims about CircuitBreaker                                             *)
(***************************************************************************)
\* C32: is_open(s) answers True exactly when failure_threshold or more
\* record_failure(s) calls have been made in a row, with no record_success(s)
\* between them and each less than recovery_timeout after the one before, and
\* less than recovery_timeout has passed since the last of them: it is False
\* at the start, True from the T-th such failure on, False again after a
\* record_success(s) or when recovery_timeout has passed, and the failures
\* are then counted from 0.
C32_OpenAfterThresholdFailures ==
    [][\A name \in BreakerNames :
           brkBegun' = brkBegun + 1 /\ brkCall'.op = "is_open" /\ brkCall'.name = name =>
               (brkCall'.result = "True"
                   <=> BrkStreakLive(name) /\ brkStreak[name].n >= failure_threshold)]_vars

\* With a threshold of 2, two failures in a row were recorded and is_open
\* has answered True.
C32_Witness ==
    /\ failure_threshold = 2
    /\ brkCall.op = "is_open"
    /\ brkCall.result = "True"
    /\ brkStreak[brkCall.name].n = 2

(***************************************************************************)
(* Claims about the auth service                                           *)
(***************************************************************************)
\* C33: once logout has been called with a token, every later verification
\* of that token (/auth/verify, /auth/me, /auth/sessions) is answered 401:
\* while the token has not expired its blacklist key is in the store, and a
\* later login of the user does not make the token valid again.
C33_LoggedOutTokenRefused ==
    /\ [][authCalls' = authCalls + 1 /\ authLast'.op \in AuthEndpoints
              /\ authLast'.token \in authOut
          => authLast'.status = 401]_vars
    /\ [](\A token \in authOut :
              JwtDecodes(token, now) => <<"blacklist", token>> \in DOMAIN authStore)

\* The user logged out and logged in again, and the token of the logout has
\* been refused while it had not expired.
C33_Witness ==
    /\ authLast.op \in AuthEndpoints
    /\ authLast.token \in authOut
    /\ JwtDecodes(authLast.token, now)
    /\ authLast.status = 401
    /\ \E token \in authIssued \ authOut : token[1] = authLast.token[1]

(***************************************************************************)
(* Claims about the notification service                                   *)
(***************************************************************************)
\* C34: the record of a queued notification is stored with status pending
\* before its endpoint responds; its task in the end stores exactly one of
\* sent and failed; the status is never pending again, and a status of sent
\* or failed is not changed.
C34_PendingThenSentOrFailed ==
    /\ [](\A id \in DOMAIN notifTasks :
              /\ notifHist[id][1] = "pending"
              /\ Len(notifHist[id]) <= 2
              /\ Len(notifHist[id]) = 2 => notifHist[id][2] \in {"sent", "failed"}
              /\ id \in DOMAIN notifStore
              /\ notifStore[id].val.status = notifHist[id][Len(notifHist[id])])
    /\ \A id \in 1 .. MaxNotifications :
           [](id \in DOMAIN notifTasks =>
                  <>(/\ id \in DOMAIN notifStore
                     /\ notifStore[id].val.status \in {"sent", "failed"}))

\* A webhook notification has failed and an email has been sent.
C34_Witness ==
    \E i, j \in DOMAIN notifTasks :
        /\ notifTasks[i].type = "webhook" /\ notifTasks[i].pc = "done"
        /\ notifStore[i].val.status = "failed"
        /\ notifTasks[j].type = "email" /\ notifTasks[j].pc = "done"
        /\ notifStore[j].val.status = "sent"

(***************************************************************************)
(* Claims about the cache manager                                          *)
(***************************************************************************)
\* C35: a get_or_set that finds a decodable value under key returns it and
\* does not call the factory; otherwise it calls the factory once, returns
\* its result and stores it exactly when it is not None; a get_or_set on a
\* key whose stored result is within its TTL returns that result without
\* calling the factory; and no get_or_set raises.
C35_GetOrSet ==
    [][cmCalls' = cmCalls + 1 =>
          LET call == cmCall'
          IN  /\ ~call.raised
              /\ IF call.seen # None /\ CmDecodable(ValueOf(call.seen))
                 THEN /\ call.factoryCalls = 0
                      /\ call.returned = json_loads(ValueOf(call.seen))
                 ELSE /\ call.factoryCalls = 1
                      /\ call.returned = call.factory
                      /\ call.factory # None
                             <=> StoreGet(cmStore', call.key) = Some(json_dumps(call.factory))
              /\ call.at < cmFresh[call.key].exp =>
                     /\ call.factoryCalls = 0
                     /\ call.returned = cmFresh[call.key].val]_vars

====
